---- MODULE Spec2Model ----
(***************************************************************************)
(* Model of the slide-document generation pipeline of geotra_slide:        *)
(* SlideDocument (slide_models.py), SlideLibrary (slide_library.py),       *)
(* SlideOutlineGenerator and SlideContentGenerator (slide_generation.py)   *)
(* and SlideDocumentStore (slide_document.py).                             *)
(*                                                                         *)
(* Conventions.  A Python str that the code inspects character by          *)
(* character (descriptions, generated text, user_request, company names,   *)
(* slide_structure) is a sequence of characters; the multi-character       *)
(* tokens the code searches for are single elements of such a sequence.    *)
(* A str the code only stores, compares or tests for truth (ids, titles,   *)
(* citations, summaries) is a TLA+ string, with None for Python's None.    *)
(* A Python dict is a function whose DOMAIN is the set of keys present.    *)
(***************************************************************************)
EXTENDS Integers, Sequences, FiniteSets, TLC

\* ---------------------------------------------------------------- basics

None == "<None>"

\* Python truthiness of an Optional[str] held as a TLA+ string.
Truthy(v) == v # None /\ v # ""

EmptyDict == [k \in {} |-> TRUE]

Get(d, k, default) == IF k \in DOMAIN d THEN d[k] ELSE default

Put(d, k, v) == [x \in (DOMAIN d) \cup {k} |-> IF x = k THEN v ELSE d[x]]

SetDefault(d, k, v) == IF k \in DOMAIN d THEN d ELSE Put(d, k, v)

RECURSIVE SeqsUpTo(_, _)
SeqsUpTo(S, n) ==
    IF n = 0 THEN {<<>>}
    ELSE LET shorter == SeqsUpTo(S, n - 1)
         IN  shorter \cup {Append(q, x) : q \in {r \in shorter : Len(r) = n - 1}, x \in S}

Range(q) == {q[i] : i \in 1..Len(q)}

Max(S) == CHOOSE x \in S : \A y \in S : y <= x
Min(S) == CHOOSE x \in S : \A y \in S : x <= y

\* ------------------------------------------------- str helpers (characters)

Whitespace == {" ", "\n"}

RECURSIVE LStrip(_)
LStrip(t) == IF t # <<>> /\ Head(t) \in Whitespace THEN LStrip(Tail(t)) ELSE t

RECURSIVE RStrip(_)
RStrip(t) ==
    IF t # <<>> /\ t[Len(t)] \in Whitespace THEN RStrip(SubSeq(t, 1, Len(t) - 1)) ELSE t

\* str.strip()
Strip(t) == RStrip(LStrip(t))

\* The tokens of a placeholder description the helpers search for.
Brackets == {"<lb>", "<rb>"}          \* the corner brackets U+300C, U+300D
Markers == {"<to-kisai>", "<to-kijutsu>", "<wo-kisai>", "<wo-kijutsu>"}
CompanyToken == "<aite-kigyo-mei>"
Digits == {"0", "1"}                  \* the digits the descriptions use
NowYearMonth == <<"%Y.%m">>
GenericCompany == <<"<onsha>">>

\* re.sub(r"(<marker>).*", "", text): from a marker to the end of
\* its line ("." does not match a newline).
RECURSIVE CutAtMarkers(_, _)
CutAtMarkers(t, cutting) ==
    IF t = <<>> THEN <<>>
    ELSE IF Head(t) = "\n" THEN <<"\n">> \o CutAtMarkers(Tail(t), FALSE)
    ELSE IF cutting \/ Head(t) \in Markers THEN CutAtMarkers(Tail(t), TRUE)
    ELSE <<Head(t)>> \o CutAtMarkers(Tail(t), FALSE)

_normalize_fixed_text(description) ==
    Strip(CutAtMarkers(SelectSeq(description, LAMBDA c : c \notin Brackets), FALSE))

\* A replace that stops after the first occurrence, as str.replace(old, new, 1).
RECURSIVE ReplaceFirstCompany(_, _)
ReplaceFirstCompany(t, company) ==
    IF t = <<>> THEN <<>>
    ELSE IF Head(t) = CompanyToken
    THEN IF Len(t) >= 2 /\ t[2] = "+"
         THEN company \o Tail(Tail(t))
         ELSE company \o Tail(t)
    ELSE <<Head(t)>> \o ReplaceFirstCompany(Tail(t), company)

\* text.replace(token + "+", company) followed by text.replace(token, company)
RECURSIVE ReplaceCompany(_, _)
ReplaceCompany(t, company) ==
    IF t = <<>> THEN <<>>
    ELSE IF Head(t) = CompanyToken
    THEN IF Len(t) >= 2 /\ t[2] = "+"
         THEN company \o ReplaceCompany(Tail(Tail(t)), company)
         ELSE company \o ReplaceCompany(Tail(t), company)
    ELSE <<Head(t)>> \o ReplaceCompany(Tail(t), company)

\* How many characters after a "20XX" the pattern [./]?\d{0,2} consumes.
DateSuffixLen(t) ==
    LET sep == IF t # <<>> /\ Head(t) \in {".", "/"} THEN 1 ELSE 0
        d1 == IF Len(t) > sep /\ t[sep + 1] \in Digits THEN 1 ELSE 0
        d2 == IF d1 = 1 /\ Len(t) > sep + 1 /\ t[sep + 2] \in Digits THEN 1 ELSE 0
    IN  sep + d1 + d2

\* re.sub(r"20XX[./]?\d{0,2}", now, text); re.sub(r"YYYY\.M", now, text);
\* the third substitution (r"20XX" by the year) finds nothing the first left.
RECURSIVE ReplaceDates(_)
ReplaceDates(t) ==
    IF t = <<>> THEN <<>>
    ELSE IF Head(t) = "20XX"
    THEN NowYearMonth \o ReplaceDates(SubSeq(t, 2 + DateSuffixLen(Tail(t)), Len(t)))
    ELSE IF Head(t) = "YYYY.M" THEN NowYearMonth \o ReplaceDates(Tail(t))
    ELSE <<Head(t)>> \o ReplaceDates(Tail(t))

_populate_with_context(description, target_company) ==
    LET company == IF target_company # <<>> THEN target_company ELSE GenericCompany
    IN  _normalize_fixed_text(ReplaceDates(ReplaceCompany(description, company)))

\* ------------------------------------------------ slide_models.py: catalog

PlaceholderSpec(name, idx, description, edit_policy) ==
    [name |-> name, idx |-> idx, description |-> description, edit_policy |-> edit_policy]

SlideAsset(asset_id, file_name, placeholders) ==
    [asset_id |-> asset_id, file_name |-> file_name, placeholders |-> placeholders]

\* str.lower() on the edit policies the manifests use.
Lower(policy) == IF policy = "Generate" THEN "generate" ELSE policy

\* The slide_library_manifest.json of the model: a cover with one placeholder of
\* each policy, a body slide with generated text only (one description padded
\* with a blank, one policy in mixed case, one policy the code does not know)
\* and a slide without generated text.
AllAssets ==
    << SlideAsset("cover_001", "cover.pptx",
          << PlaceholderSpec("ph1", 0, <<CompanyToken, "+", " ", "20XX", "/", "1">>, "populate"),
             PlaceholderSpec("ph2", 1, <<"a", "b">>, "generate"),
             PlaceholderSpec("ph3", 2, <<"<lb>", "c", "<rb>", "<to-kisai>", "e">>, "fixed") >>),
       SlideAsset("body_001", "body.pptx",
          << PlaceholderSpec("ph1", 0, <<" ", "h">>, "generate"),
             PlaceholderSpec("ph2", 1, <<"k">>, "Generate"),
             PlaceholderSpec("ph3", 2, <<"m", " ">>, "custom") >>),
       SlideAsset("static_001", "static.pptx",
          << PlaceholderSpec("ph1", 0, <<"YYYY.M", " ", "f">>, "fixed"),
             PlaceholderSpec("ph2", 1, <<CompanyToken, "g">>, "populate") >>) >>

\* ----------------------------------------------- slide_models.py: documents

SlidePlaceholderContent(name, text, policy, references) ==
    [name |-> name, text |-> text, policy |-> policy, references |-> references]

SlidePage(slide_id, page_number, asset_id, asset_file, title, placeholders, notes) ==
    [slide_id |-> slide_id, page_number |-> page_number, asset_id |-> asset_id,
     asset_file |-> asset_file, title |-> title, placeholders |-> placeholders,
     notes |-> notes]

SlideDocument(slides, metadata) == [slides |-> slides, metadata |-> metadata]

SlidePlaceholderContent_to_dict(ph) ==
    [placeholder_name |-> ph.name, content |-> ph.text, policy |-> ph.policy,
     references |-> ph.references]

SlidePlaceholderContent_from_dict(data) ==
    SlidePlaceholderContent(Get(data, "placeholder_name", ""), Get(data, "content", <<>>),
                            Get(data, "policy", "generate"), Get(data, "references", <<>>))

SlidePage_to_dict(slide) ==
    [slide_id |-> slide.slide_id, page |-> slide.page_number, asset_id |-> slide.asset_id,
     asset_file |-> slide.asset_file, title |-> slide.title,
     placeholders |-> [i \in 1..Len(slide.placeholders) |->
                          SlidePlaceholderContent_to_dict(slide.placeholders[i])],
     notes |-> slide.notes]

\* A from_dict that reads the page under the name of the field, not the key
\* to_dict writes.
SlidePage_from_dict_FieldName(data) ==
    SlidePage(Get(data, "slide_id", ""), Get(data, "page_number", 1),
              Get(data, "asset_id", ""), Get(data, "asset_file", ""),
              Get(data, "title", None),
              LET items == Get(data, "placeholders", <<>>)
              IN  [i \in 1..Len(items) |-> SlidePlaceholderContent_from_dict(items[i])],
              Get(data, "notes", EmptyDict))

SlidePage_from_dict(data) ==
    SlidePage(Get(data, "slide_id", ""), Get(data, "page", 1), Get(data, "asset_id", ""),
              Get(data, "asset_file", ""), Get(data, "title", None),
              LET items == Get(data, "placeholders", <<>>)
              IN  [i \in 1..Len(items) |-> SlidePlaceholderContent_from_dict(items[i])],
              Get(data, "notes", EmptyDict))

SlideDocument_to_dict(document) ==
    [slides |-> [i \in 1..Len(document.slides) |-> SlidePage_to_dict(document.slides[i])],
     metadata |-> document.metadata]

SlideDocument_from_dict(data) ==
    SlideDocument(LET items == Get(data, "slides", <<>>)
                  IN  [i \in 1..Len(items) |-> SlidePage_from_dict(items[i])],
                  Get(data, "metadata", EmptyDict))

\* A lookup that settles for the first slide when no slide has the id.
IndexOfSlideOrFirst(slides, slide_id) ==
    IF \E i \in 1..Len(slides) : slides[i].slide_id = slide_id
    THEN CHOOSE i \in 1..Len(slides) :
            /\ slides[i].slide_id = slide_id
            /\ \A j \in 1..(i - 1) : slides[j].slide_id # slide_id
    ELSE IF slides # <<>> THEN 1 ELSE 0

\* get_slide and the loop of upsert_slide: the index of the first slide with this
\* slide_id, 0 when there is none (get_slide returns None).
IndexOfSlide(slides, slide_id) ==
    IF \E i \in 1..Len(slides) : slides[i].slide_id = slide_id
    THEN CHOOSE i \in 1..Len(slides) :
            /\ slides[i].slide_id = slide_id
            /\ \A j \in 1..(i - 1) : slides[j].slide_id # slide_id
    ELSE 0

\* list.sort(key=lambda item: item.page_number): stable, ascending.
RECURSIVE InsertByPage(_, _)
InsertByPage(sorted, slide) ==
    IF sorted = <<>> THEN <<slide>>
    ELSE IF sorted[Len(sorted)].page_number <= slide.page_number
    THEN Append(sorted, slide)
    ELSE Append(InsertByPage(SubSeq(sorted, 1, Len(sorted) - 1), slide), sorted[Len(sorted)])

RECURSIVE SortByPage(_)
SortByPage(slides) ==
    IF slides = <<>> THEN <<>>
    ELSE InsertByPage(SortByPage(SubSeq(slides, 1, Len(slides) - 1)), slides[Len(slides)])

\* An upsert that never replaces: the slide is added to the list.
AppendSlide(document, slide) ==
    [document EXCEPT !.slides = SortByPage(Append(document.slides, slide))]

upsert_slide(document, slide) ==
    LET i == IndexOfSlide(document.slides, slide.slide_id)
        replaced == IF i = 0 THEN Append(document.slides, slide)
                    ELSE [document.slides EXCEPT ![i] = slide]
    IN  [document EXCEPT !.slides = SortByPage(replaced)]

\* ------------------------------------------------------ slide_library.py

\* list_assets keeps the manifest order; get_asset raises KeyError for an id
\* that is not a key of _slide_assets.
AssetIds(assets) == {assets[i].asset_id : i \in 1..Len(assets)}

get_asset(assets, asset_id) ==
    assets[CHOOSE i \in 1..Len(assets) : assets[i].asset_id = asset_id]

\* SlideAsset.get_placeholder: the names of the asset's PlaceholderSpecs
PlaceholderNames(asset) == {asset.placeholders[k].name : k \in 1..Len(asset.placeholders)}

\* Result of SlideLibrary.get_asset as a call of its own: [outcome, names],
\* names being the identifiers the message of the KeyError holds.
get_asset_call(assets, asset_id) ==
    IF asset_id \in AssetIds(assets)
    THEN [outcome |-> "ok", names |-> {}]
    ELSE [outcome |-> "KeyError", names |-> {asset_id}]

\* A get_placeholder that hands back the None of SlideAsset.get_placeholder.
get_placeholder_OrNone(assets, asset_id, placeholder_name) ==
    IF asset_id \notin AssetIds(assets)
    THEN [outcome |-> "KeyError", names |-> {asset_id}]
    ELSE [outcome |-> "ok", names |-> {}]

\* Result of SlideLibrary.get_placeholder: [outcome, names]
get_placeholder(assets, asset_id, placeholder_name) ==
    IF asset_id \notin AssetIds(assets)
    THEN [outcome |-> "KeyError", names |-> {asset_id}]
    ELSE IF placeholder_name \notin PlaceholderNames(get_asset(assets, asset_id))
    THEN [outcome |-> "KeyError", names |-> {placeholder_name, asset_id}]
    ELSE [outcome |-> "ok", names |-> {}]

\* ------------------------------------- slide_generation.py: the collaborator

\* llm_client: None, a client without web_search, a client with web_search.
LlmClients == {"none", "structured", "structured+web_search"}

NoCalls == [structured |-> 0, web_search |-> 0]

\* What generate_structured_output does: it raises, returns None, or returns
\* a StructuredOutputResponse whose parsed_output and text are both empty
\* ("blank"), whose text is not JSON ("garbage"), whose text alone holds the
\* JSON of payload ("text"), or whose parsed_output is payload ("parsed", the
\* text being the same JSON).
ResponseKinds == {"raise", "none", "blank", "garbage", "text", "parsed"}

NoPayload == [shape |-> "none"]

\* _extract_parsed_output of both generators (logging apart they are the same)
_extract_parsed_output(response) ==
    IF response.kind \in {"text", "parsed"} THEN response.payload ELSE NoPayload

\* `not parsed`: None and {} are falsy
PayloadFalsy(payload) == payload.shape \in {"none", "empty_dict"}

\* ----------------------------------- slide_generation.py: SlideOutlineGenerator

OutlineNotesLimit == 200

\* f"slide_{idx:02d}"
SlideIdFor(idx) == "slide_" \o (IF idx < 10 THEN "0" ELSE "") \o ToString(idx)

\* f"outline slide {idx}" (the Japanese title of the fallback slides)
FallbackTitle(idx) == "outline_slide_" \o ToString(idx)

Take(q, n) == SubSeq(q, 1, IF Len(q) < n THEN Len(q) ELSE n)

_fallback_outline(assets, slide_structure) ==
    [idx \in 1..Len(Take(assets, 2)) |->
        SlidePage(SlideIdFor(idx), idx, assets[idx].asset_id, assets[idx].file_name,
                  FallbackTitle(idx), <<>>,
                  [outline_notes |-> Take(slide_structure, OutlineNotesLimit)])]

\* An entry whose default slide_id is formatted from its page number.
OutlineSlideIdFromPage(assets, raw, idx) ==
    LET asset == get_asset(assets, raw.asset_id)
        page  == IF raw.page_number # 0 THEN raw.page_number
                 ELSE IF raw.page # 0 THEN raw.page ELSE idx
    IN  SlidePage(IF Truthy(raw.slide_id) THEN raw.slide_id ELSE SlideIdFor(page),
                  page, asset.asset_id, asset.file_name, raw.title, <<>>,
                  IF raw.notes # <<>> THEN [outline_notes |-> raw.notes] ELSE EmptyDict)

\* One entry of the loop of _build_slides_from_parsed that passed both
\* `continue` tests and whose asset is in the library.
OutlineSlide(assets, raw, idx) ==
    LET asset == get_asset(assets, raw.asset_id)
        page  == IF raw.page_number # 0 THEN raw.page_number
                 ELSE IF raw.page # 0 THEN raw.page ELSE idx
    IN  SlidePage(IF Truthy(raw.slide_id) THEN raw.slide_id ELSE SlideIdFor(idx),
                  page, asset.asset_id, asset.file_name, raw.title, <<>>,
                  IF raw.notes # <<>> THEN [outline_notes |-> raw.notes] ELSE EmptyDict)

EntrySkipped(raw) == ~raw.is_dict \/ ~Truthy(raw.asset_id)

\* The slides appended by the loop over the first n entries, in payload order.
RECURSIVE CollectOutlineSlides(_, _, _)
CollectOutlineSlides(assets, entries, n) ==
    IF n = 0 THEN <<>>
    ELSE LET before == CollectOutlineSlides(assets, entries, n - 1)
         IN  IF EntrySkipped(entries[n]) THEN before
             ELSE Append(before, OutlineSlide(assets, entries[n], n))

\* Result of _build_slides_from_parsed: [outcome, slides]
_build_slides_from_parsed(assets, payload) ==
    LET entries == IF payload.shape = "dict" /\ payload.has_slides THEN payload.slides
                   ELSE <<>>
    IN  IF \E i \in 1..Len(entries) :
              ~EntrySkipped(entries[i]) /\ entries[i].asset_id \notin AssetIds(assets)
        THEN [outcome |-> "KeyError", slides |-> <<>>,
              named |-> entries[Min({i \in 1..Len(entries) :
                                       /\ ~EntrySkipped(entries[i])
                                       /\ entries[i].asset_id \notin AssetIds(assets)})].asset_id]
        ELSE LET slides == SortByPage(CollectOutlineSlides(assets, entries, Len(entries)))
             IN  [outcome |-> "ok", named |-> None,
                  slides  |-> IF slides = <<>> THEN _fallback_outline(assets, <<>>)
                              ELSE slides]

\* Result of generate_outline: [outcome, named, document, calls]
generate_outline(assets, client, slide_structure, ctx, response) ==
    IF assets = <<>>
    THEN [outcome |-> "RuntimeError", named |-> None,
          document |-> SlideDocument(<<>>, EmptyDict), calls |-> NoCalls]
    ELSE IF client = "none"
    THEN [outcome  |-> "ok", named |-> None,
          document |-> SlideDocument(_fallback_outline(assets, slide_structure),
                                     [slide_structure |-> slide_structure]),
          calls    |-> NoCalls]
    ELSE IF response.kind = "raise"
    THEN [outcome |-> "LLMError", named |-> None,
          document |-> SlideDocument(<<>>, EmptyDict),
          calls |-> [NoCalls EXCEPT !.structured = 1]]
    ELSE LET parsed == _extract_parsed_output(response)
             built  == IF PayloadFalsy(parsed)
                       THEN [outcome |-> "ok", named |-> None,
                             slides |-> _fallback_outline(assets, slide_structure)]
                       ELSE _build_slides_from_parsed(assets, parsed)
             meta   == [slide_structure |-> slide_structure]
         IN  [outcome  |-> built.outcome, named |-> built.named,
              document |-> SlideDocument(built.slides,
                              IF Truthy(ctx.additional_notes)
                              THEN SetDefault(meta, "user_notes", ctx.additional_notes)
                              ELSE meta),
              calls    |-> [NoCalls EXCEPT !.structured = 1]]

\* ---------------------------------- slide_generation.py: SlideContentGenerator

\* The characters of the class [A-Za-z0-9<kanji><katakana>] of the patterns of
\* _infer_target_entity: letters, digits, kanji and katakana, among them the
\* suffixes <sha>, <sama> and the first character of <muke><ke>; hiragana
\* (<ke>, <no>) and blanks are outside it.
AsciiLetters == {"A", "B", "C", "E", "J", "K", "M"}
EntityClass == AsciiLetters \cup {"7", "<sha>", "<muke>", "<sama>"}

EntityPatterns == << <<"<sha>">>, <<"<muke>", "<ke>">>, <<"<sama>">>, <<"<no>">> >>

\* The ends j of a run t[i..j] of class characters that the suffix follows.
RunEnds(t, i, suffix) ==
    {j \in i..Len(t) :
        /\ \A k \in i..j : t[k] \in EntityClass
        /\ j + Len(suffix) <= Len(t)
        /\ SubSeq(t, j + 1, j + Len(suffix)) = suffix}

\* re.search(pattern, t).group(1): leftmost start, longest run; <<>> without match
SearchEntity(t, suffix) ==
    LET starts == {i \in 1..Len(t) : RunEnds(t, i, suffix) # {}}
    IN  IF starts = {} THEN <<>>
        ELSE SubSeq(t, Min(starts), Max(RunEnds(t, Min(starts), suffix)))

\* re.findall(r"[A-Za-z]{2,}", t)[0]; <<>> when nothing is found
FirstAsciiToken(t) ==
    LET starts == {i \in 1..(Len(t) - 1) : t[i] \in AsciiLetters /\ t[i + 1] \in AsciiLetters}
    IN  IF starts = {} THEN <<>>
        ELSE LET i == Min(starts)
                 ends == {j \in i..Len(t) : \A k \in i..j : t[k] \in AsciiLetters}
             IN  SubSeq(t, i, Max(ends))

\* _infer_target_entity; <<>> stands for None
_infer_target_entity(user_request) ==
    LET found == {n \in 1..Len(EntityPatterns) :
                     SearchEntity(user_request, EntityPatterns[n]) # <<>>}
    IN  IF found # {} THEN SearchEntity(user_request, EntityPatterns[Min(found)])
        ELSE FirstAsciiToken(user_request)

\* A text of the payload that is not a str (a number): str methods fail on it.
NotAString == <<"<not-a-str>">>

\* The loop over parsed["placeholders"]: llm_results after the first n
\* items.  An item without a name is passed over; a later item replaces an
\* earlier one of the same name.
RECURSIVE LlmResults(_, _)
LlmResults(items, n) ==
    IF n = 0 THEN EmptyDict
    ELSE LET before == LlmResults(items, n - 1)
             item   == items[n]
         IN  IF Truthy(item.name)
             THEN Put(before, item.name, [text |-> item.text, references |-> item.references])
             ELSE before

\* Index of the first item that is not a dict (item.get raises), 0 if none.
FirstBadItem(items) ==
    IF \E i \in 1..Len(items) : ~items[i].is_dict
    THEN Min({i \in 1..Len(items) : ~items[i].is_dict})
    ELSE 0

\* A try block that never reads parsed["citations"].
ParseWithoutCitations(response) ==
    LET parsed == _extract_parsed_output(response)
        empty  == [llm_results |-> EmptyDict, slide_summary |-> None, slide_citations |-> <<>>]
    IN  IF response.kind = "raise" \/ PayloadFalsy(parsed) THEN empty
        ELSE IF parsed.shape = "list" THEN empty
        ELSE LET bad == FirstBadItem(parsed.placeholders)
             IN  IF bad # 0
                 THEN [empty EXCEPT !.llm_results = LlmResults(parsed.placeholders, bad - 1)]
                 ELSE [llm_results     |-> LlmResults(parsed.placeholders,
                                                      Len(parsed.placeholders)),
                       slide_summary   |-> parsed.slide_summary,
                       slide_citations |-> <<>>]

\* The try block of _generate_content_for_asset: what it leaves in
\* llm_results, slide_summary and slide_citations.  An exception anywhere in
\* it is caught and leaves what was assigned before it.
ParseContentResponse(response) ==
    LET parsed == _extract_parsed_output(response)
        empty  == [llm_results |-> EmptyDict, slide_summary |-> None, slide_citations |-> <<>>]
    IN  IF response.kind = "raise" \/ PayloadFalsy(parsed) THEN empty
        ELSE IF parsed.shape = "list" THEN empty
        ELSE LET bad == FirstBadItem(parsed.placeholders)
             IN  IF bad # 0
                 THEN [empty EXCEPT !.llm_results = LlmResults(parsed.placeholders, bad - 1)]
                 ELSE [llm_results     |-> LlmResults(parsed.placeholders,
                                                      Len(parsed.placeholders)),
                       slide_summary   |-> parsed.slide_summary,
                       slide_citations |-> parsed.citations]

\* A second loop without the description as the text of last resort.
\* A generator that takes the collaborator's text for any placeholder the
\* response names, whatever its policy.
PlaceholderForAnyPolicy(spec, llm_results, target_company) ==
    LET policy == Lower(spec.edit_policy)
        generated == Get(llm_results, spec.name, [text |-> <<>>, references |-> <<>>])
    IN  IF generated.text # <<>>
        THEN SlidePlaceholderContent(spec.name, generated.text, policy, generated.references)
        ELSE IF policy = "fixed"
        THEN SlidePlaceholderContent(spec.name, _normalize_fixed_text(spec.description),
                                     policy, <<>>)
        ELSE IF policy = "populate"
        THEN SlidePlaceholderContent(spec.name,
                                     _populate_with_context(spec.description, target_company),
                                     policy, <<>>)
        ELSE SlidePlaceholderContent(spec.name, spec.description, policy, <<>>)

PlaceholderForNoFallback(spec, llm_results, target_company) ==
    LET policy == Lower(spec.edit_policy)
    IN  IF policy = "generate"
        THEN LET generated == Get(llm_results, spec.name,
                                  [text |-> <<>>, references |-> <<>>])
             IN  SlidePlaceholderContent(spec.name, generated.text, policy,
                                         generated.references)
        ELSE IF policy = "fixed"
        THEN SlidePlaceholderContent(spec.name, _normalize_fixed_text(spec.description),
                                     policy, <<>>)
        ELSE IF policy = "populate"
        THEN SlidePlaceholderContent(spec.name,
                                     _populate_with_context(spec.description, target_company),
                                     policy, <<>>)
        ELSE SlidePlaceholderContent(spec.name, spec.description, policy, <<>>)

\* The text and references one PlaceholderSpec gets in the second loop, before
\* text.strip().
PlaceholderFor(spec, llm_results, target_company) ==
    LET policy == Lower(spec.edit_policy)
    IN  IF policy = "generate"
        THEN LET generated == Get(llm_results, spec.name,
                                  [text |-> <<>>, references |-> <<>>])
             IN  SlidePlaceholderContent(spec.name,
                    IF generated.text # <<>> THEN generated.text ELSE spec.description,
                    policy, generated.references)
        ELSE IF policy = "fixed"
        THEN SlidePlaceholderContent(spec.name, _normalize_fixed_text(spec.description),
                                     policy, <<>>)
        ELSE IF policy = "populate"
        THEN SlidePlaceholderContent(spec.name,
                                     _populate_with_context(spec.description, target_company),
                                     policy, <<>>)
        ELSE SlidePlaceholderContent(spec.name, spec.description, policy, <<>>)

HasGenerate(asset) ==
    \E i \in 1..Len(asset.placeholders) :
        Lower(asset.placeholders[i].edit_policy) = "generate"

\* A recording that stores whatever the call left, empty or not.
RecordNotesAlways(notes, slide_summary, slide_citations) ==
    Put(Put(notes, "summary", slide_summary), "citations", slide_citations)

\* if slide_summary: slide.notes["summary"] = slide_summary
\* if slide_citations: slide.notes["citations"] = slide_citations
RecordNotes(notes, slide_summary, slide_citations) ==
    LET notes1 == IF Truthy(slide_summary) THEN Put(notes, "summary", slide_summary)
                  ELSE notes
    IN  IF slide_citations # <<>> THEN Put(notes1, "citations", slide_citations)
        ELSE notes1

\* Result of _generate_content_for_asset: [outcome, placeholders, notes,
\* structured], the last being the number of generate_structured_output calls.
\* text.strip() on a text that is not a str raises outside the try block,
\* before the notes are touched.
_generate_content_for_asset(slide, asset, ctx, client, response) ==
    LET called  == HasGenerate(asset) /\ client # "none"
        got     == IF called THEN ParseContentResponse(response)
                   ELSE [llm_results |-> EmptyDict, slide_summary |-> None,
                         slide_citations |-> <<>>]
        company == IF ctx.target_company # <<>> THEN ctx.target_company
                   ELSE _infer_target_entity(ctx.user_request)
        filled  == [i \in 1..Len(asset.placeholders) |->
                       PlaceholderFor(asset.placeholders[i], got.llm_results, company)]
        notes2  == RecordNotes(slide.notes, got.slide_summary, got.slide_citations)
    IN  IF \E i \in 1..Len(filled) : filled[i].text = NotAString
        THEN [outcome |-> "AttributeError", placeholders |-> <<>>, notes |-> slide.notes,
              structured |-> IF called THEN 1 ELSE 0]
        ELSE [outcome |-> "ok",
              placeholders |-> [i \in 1..Len(filled) |->
                                   [filled[i] EXCEPT !.text = Strip(filled[i].text)]],
              notes |-> notes2,
              structured |-> IF called THEN 1 ELSE 0]

\* _maybe_perform_web_search: the number of web_search calls it makes (what it
\* returns goes into the prompt only).
WebSearchCalls(ctx, client) ==
    IF ctx.perform_web_search /\ client = "structured+web_search" THEN 1 ELSE 0

\* sorted(set(existing) | set(citations)) for the citations of the model
CitationOrder == <<"c0", "c1", "c2">>

Sorted(S) == SelectSeq(CitationOrder, LAMBDA c : c \in S)

\* An accumulation that keeps the citations of the last slide only.
OverwriteReferences(document, citations) ==
    IF citations = <<>> THEN document
    ELSE [document EXCEPT !.metadata =
             Put(document.metadata, "references", Sorted(Range(citations)))]

_accumulate_references(document, citations) ==
    IF citations = <<>> THEN document
    ELSE [document EXCEPT !.metadata =
             Put(document.metadata, "references",
                 Sorted(Range(Get(document.metadata, "references", <<>>))
                        \cup Range(citations)))]

\* Result of generate_for_slide: [outcome, named, document, calls]; named is
\* the id the message of a KeyError names.
generate_for_slide(assets, client, document, slide_id, ctx, response) ==
    LET i == IndexOfSlide(document.slides, slide_id)
    IN  IF i = 0
        THEN [outcome |-> "KeyError", named |-> slide_id, document |-> document,
              calls |-> NoCalls]
        ELSE IF document.slides[i].asset_id \notin AssetIds(assets)
        THEN [outcome |-> "KeyError", named |-> document.slides[i].asset_id,
              document |-> document, calls |-> NoCalls]
        ELSE
        LET slide   == document.slides[i]
            asset   == get_asset(assets, slide.asset_id)
            web     == WebSearchCalls(ctx, client)
            content == _generate_content_for_asset(slide, asset, ctx, client, response)
            calls   == [structured |-> content.structured, web_search |-> web]
            notes1  == SetDefault(SetDefault(content.notes, "citations", <<>>),
                                  "summary", None)
            notes2  == IF Truthy(ctx.additional_notes)
                       THEN Put(notes1, "user_notes", ctx.additional_notes) ELSE notes1
            filled  == [slide EXCEPT !.placeholders = content.placeholders,
                                     !.notes = notes2]
            \* slide is the object held by document.slides[i]: it is changed in place
            inplace == [document EXCEPT !.slides[i] = filled]
        IN  IF content.outcome # "ok"
            THEN [outcome |-> content.outcome, named |-> None, document |-> document,
                  calls |-> calls]
            ELSE [outcome  |-> "ok", named |-> None,
                  document |-> _accumulate_references(upsert_slide(inplace, filled),
                                                      notes2["citations"]),
                  calls    |-> calls]

\* The loop of generate_for_document over the first n slides of the list
\* copied at its start; responses[k] is what the collaborator does when the
\* k-th iteration calls it.  The first call that raises ends the loop; the
\* slides filled before it stay filled in the caller's document.
RECURSIVE GenerateSlides(_, _, _, _, _, _, _)
GenerateSlides(assets, client, document, snapshot, ctx, responses, n) ==
    IF n = 0
    THEN [outcome |-> "ok", named |-> None, document |-> document, calls |-> NoCalls,
          steps |-> <<>>]
    ELSE \* before and step are each bound to one value
         CHOOSE after \in
             { IF before.outcome # "ok" THEN before
               ELSE CHOOSE result \in
                        { [outcome  |-> step.outcome, named |-> step.named,
                           document |-> step.document,
                           calls    |-> [structured |-> before.calls.structured
                                                          + step.calls.structured,
                                         web_search |-> before.calls.web_search
                                                          + step.calls.web_search],
                           steps    |-> Append(before.steps, step.calls.structured)]
                          : step \in {generate_for_slide(assets, client, before.document,
                                                         snapshot[n].slide_id, ctx,
                                                         responses[n])} } : TRUE
               : before \in {GenerateSlides(assets, client, document, snapshot, ctx,
                                            responses, n - 1)} } : TRUE

generate_for_document(assets, client, document, ctx, responses) ==
    GenerateSlides(assets, client, document, document.slides, ctx, responses,
                   Len(document.slides))

\* ----------------------------------------------------- pptx_renderer.py

\* The text of a shape: what the layout gave it, a text written by
\* _write_placeholders from a content or a description, or the slide title.
Unwritten == [by |-> "layout"]

WrittenText(text) == [by |-> "content", text |-> text]

WrittenTitle(title) == [by |-> "title", title |-> title]

\* A placeholder shape: placeholder_format.idx and .type, shape.name,
\* has_text_frame and the text of its text frame.
PlaceholderShape(idx, name, type, has_text_frame) ==
    [idx |-> idx, name |-> name, type |-> type, has_text_frame |-> has_text_frame,
     text |-> Unwritten]

\* A layout of the master template with the placeholders add_slide clones.
SlideLayout(name, placeholders) == [name |-> name, placeholders |-> placeholders]

\* Slide 0 of an asset's file: the name of its layout, the idx of its
\* placeholder shapes and the texts of its other shapes with a text frame.
SourceSlide(layout_name, placeholder_indices, textboxes) ==
    [layout_name |-> layout_name, placeholder_indices |-> placeholder_indices,
     textboxes |-> textboxes]

\* Presentation(path): the layouts and the slides the file holds.
Presentation(layouts, slides) == [layouts |-> layouts, slides |-> slides]

_clear_existing_slides(presentation) == [presentation EXCEPT !.slides = <<>>]

\* sorted(missing)
RECURSIVE SortedIndices(_)
SortedIndices(S) ==
    IF S = {} THEN <<>> ELSE <<Min(S)>> \o SortedIndices(S \ {Min(S)})

\* A _copy_slide that finds every index present.
NoMissingIndices(source_slide, new_slide) == {}

\* required_indices - present_indices
MissingIndices(source_slide, new_slide) ==
    source_slide.placeholder_indices
        \ {new_slide.placeholders[i].idx : i \in 1..Len(new_slide.placeholders)}

\* Result of _copy_slide: [outcome, missing, slide].  get_by_name of a name
\* the master template lacks raises KeyError or returns None, as the pptx
\* package at hand does; with None add_slide fails.
_copy_slide(source_slide, destination_prs, get_by_name) ==
    LET layouts == destination_prs.layouts
        named   == {i \in 1..Len(layouts) : layouts[i].name = source_slide.layout_name}
        failed(outcome) == [outcome |-> outcome, missing |-> <<>>,
                            slide |-> [placeholders |-> <<>>, textboxes |-> <<>>]]
    IN  IF named = {} /\ get_by_name = "returns_none" THEN failed("AttributeError")
        ELSE IF named = {} /\ Len(layouts) < 2 THEN failed("IndexError")
        ELSE LET layout    == IF named # {} THEN layouts[Min(named)] ELSE layouts[2]
                 new_slide == [placeholders |-> layout.placeholders,
                               textboxes    |-> source_slide.textboxes]
                 missing   == MissingIndices(source_slide, new_slide)
             IN  IF missing # {}
                 THEN [outcome |-> "RuntimeError", missing |-> SortedIndices(missing),
                       slide |-> new_slide]
                 ELSE [outcome |-> "ok", missing |-> <<>>, slide |-> new_slide]

\* A lookup of the shape by its name.
ShapeNamed(shapes, spec) ==
    LET found == {i \in 1..Len(shapes) : shapes[i].name = spec.name}
    IN  IF found = {} THEN 0 ELSE Max(found)

\* placeholders_by_idx.get(spec.idx): the index of the last placeholder shape
\* with this idx, 0 for None.
ShapeAt(shapes, spec) ==
    LET found == {i \in 1..Len(shapes) : shapes[i].idx = spec.idx}
    IN  IF found = {} THEN 0 ELSE Max(found)

\* content_map.get(name, SlidePlaceholderContent(name, spec.description, ...)).text
ContentText(slide_page, spec) ==
    LET found == {i \in 1..Len(slide_page.placeholders) :
                     slide_page.placeholders[i].name = spec.name}
    IN  IF found = {} THEN spec.description
        ELSE slide_page.placeholders[Max(found)].text

\* The loop over placeholder_specs.items() after the first n specs of the
\* asset: a dict keeps a name at the place of its first spec and holds its
\* last spec.
RECURSIVE WriteSpecs(_, _, _, _)
WriteSpecs(shapes, slide_page, specs, n) ==
    IF n = 0 THEN shapes
    ELSE LET before == WriteSpecs(shapes, slide_page, specs, n - 1)
             same   == {k \in 1..Len(specs) : specs[k].name = specs[n].name}
             spec   == specs[Max(same)]
             at     == ShapeAt(before, spec)
         IN  IF Min(same) # n \/ at = 0 \/ ~before[at].has_text_frame THEN before
             ELSE [before EXCEPT ![at].text = WrittenText(ContentText(slide_page, spec))]

\* A _write_placeholders that stores the texts it wrote in the slide page.
_write_placeholders_Backfill(slide, slide_page, asset) ==
    [slide |-> [slide EXCEPT !.placeholders =
                   WriteSpecs(slide.placeholders, slide_page, asset.placeholders,
                              Len(asset.placeholders))],
     slide_page |-> [slide_page EXCEPT !.placeholders =
                        [k \in 1..Len(asset.placeholders) |->
                            SlidePlaceholderContent(asset.placeholders[k].name,
                                ContentText(slide_page, asset.placeholders[k]),
                                asset.placeholders[k].edit_policy, <<>>)]]]

\* Result of _write_placeholders: the slide with its texts written and the
\* slide page, which the method reads only.
_write_placeholders(slide, slide_page, asset) ==
    LET written == WriteSpecs(slide.placeholders, slide_page, asset.placeholders,
                              Len(asset.placeholders))
        titles  == {i \in 1..Len(written) : written[i].type = "title"}
        titled  == IF Truthy(slide_page.title) /\ titles # {}
                      /\ written[Min(titles)].has_text_frame
                   THEN [written EXCEPT ![Min(titles)].text = WrittenTitle(slide_page.title)]
                   ELSE written
    IN  [slide |-> [slide EXCEPT !.placeholders = titled], slide_page |-> slide_page]

\* The loop of render_document over the first n slide pages: [outcome, named,
\* missing, presentation, pages], pages being the slide pages after the call.
\* The first slide that fails ends the loop.
RECURSIVE RenderSlides(_, _, _, _, _)
RenderSlides(assets, root, presentation, pages, n) ==
    IF n = 0
    THEN [outcome |-> "ok", named |-> None, missing |-> <<>>,
          presentation |-> presentation, pages |-> pages]
    ELSE LET before == RenderSlides(assets, root, presentation, pages, n - 1)
             page   == before.pages[n]
         IN  IF before.outcome # "ok" THEN before
             ELSE IF page.asset_id \notin AssetIds(assets)
             THEN [before EXCEPT !.outcome = "KeyError", !.named = page.asset_id]
             ELSE LET asset == get_asset(assets, page.asset_id)
                  IN  IF asset.file_name \notin DOMAIN root.sources
                      THEN [before EXCEPT !.outcome = "PackageNotFoundError",
                                          !.named = asset.file_name]
                      ELSE
                      LET copied == _copy_slide(root.sources[asset.file_name],
                                                before.presentation, root.get_by_name)
                          wrote  == _write_placeholders(copied.slide, page, asset)
                      IN  IF copied.outcome # "ok"
                          THEN [before EXCEPT !.outcome = copied.outcome,
                                              !.missing = copied.missing]
                          ELSE [before EXCEPT
                                   !.presentation.slides = Append(@, wrote.slide),
                                   !.pages[n] = wrote.slide_page]

\* Result of render_document: [outcome, named, missing, deck, document]; deck
\* is the slides of the saved stream, document the document after the call.
render_document(assets, root, document) ==
    LET presentation == _clear_existing_slides(root.master)
        done == RenderSlides(assets, root, presentation, document.slides,
                             Len(document.slides))
    IN  [outcome  |-> done.outcome, named |-> done.named, missing |-> done.missing,
         deck     |-> IF done.outcome = "ok" THEN done.presentation.slides ELSE <<>>,
         document |-> [document EXCEPT !.slides = done.pages]]

\* ----------------------------------------------------------------- state

VARIABLES
    assets_root,  \* the pptx files under assets: master template and slide files
    library,      \* SlideLibrary._slide_assets, in manifest order
    llm_client,   \* the llm_client the generators were built with
    context,      \* the GenerationContext of the session
    document,     \* the SlideDocument of the session
    file,         \* the slide.json of SlideDocumentStore: NoFile or a payload
    passes,       \* content-generation calls made so far
    pre,          \* document before the last operation
    last          \* the last operation with its inputs, outcome and calls

vars == <<assets_root, library, llm_client, context, document, file, passes, pre, last>>

EmptyDocument == SlideDocument(<<>>, EmptyDict)

NoFile == [exists |-> FALSE]

\* ---------------------------------------------------------------- inputs

MaxOutlineEntries == 2

LongStructure == [i \in 1..(OutlineNotesLimit + 1) |-> "s"]

Structures == {<<"s", "t">>, LongStructure}

Companies == {<<>>, <<"A", "C", "M", "E">>}

\* user_request: empty, and "JKA<sha> <muke><ke>" whose company the first
\* pattern of _infer_target_entity finds.
UserRequests == {<<>>, <<"J", "K", "A", "<sha>", "<no>", "<muke>", "<ke>">>}

GenerationContext(user_request, target_company, additional_notes, perform_web_search) ==
    [user_request |-> user_request, target_company |-> target_company,
     additional_notes |-> additional_notes, perform_web_search |-> perform_web_search]

Contexts ==
    {GenerationContext(r, c, n, w) :
        r \in UserRequests, c \in Companies, n \in {None, "note"}, w \in BOOLEAN}

Libraries == {Take(AllAssets, n) : n \in 0..Len(AllAssets)}

\* The entries of the "slides" array of an outline payload.
OutlineEntry(asset_id, slide_id, page_number, page, title, notes) ==
    [is_dict |-> TRUE, asset_id |-> asset_id, slide_id |-> slide_id,
     page_number |-> page_number, page |-> page, title |-> title, notes |-> notes]

NotADict == [is_dict |-> FALSE]

OutlineEntries ==
    {OutlineEntry(a, s, p[1], p[2], t[1], t[2]) :
        a \in {"cover_001", "ghost_999", None},
        s \in {None, "slide_02"},
        p \in {<<0, 0>>, <<2, 0>>, <<0, 1>>},
        t \in {<<None, <<>> >>, <<"title", <<"n">> >>}}
    \cup {NotADict}

OutlinePayloads ==
    {[shape |-> "empty_dict"], [shape |-> "list"], [shape |-> "dict", has_slides |-> FALSE]}
    \cup {[shape |-> "dict", has_slides |-> TRUE, slides |-> q] :
            q \in SeqsUpTo(OutlineEntries, MaxOutlineEntries)}

NotCalled == [kind |-> "not_called"]

\* A payload reaches the generator as parsed_output or, with parsed_output
\* empty, as the JSON text of the response (here for the payloads of at most
\* one entry).
OutlineResponses ==
    {[kind |-> k] : k \in {"raise", "none", "blank", "garbage"}}
    \cup {[kind |-> "parsed", payload |-> p] : p \in OutlinePayloads}
    \cup {[kind |-> "text", payload |-> p] :
            p \in {q \in OutlinePayloads : q.shape = "dict" /\ q.has_slides => Len(q.slides) <= 1}}

\* The entries of the "placeholders" array of a content payload; name stands
\* for item["placeholder_name"] or item["name"], text for item["text"] or
\* item["content"], references for item["references"] or item["citations"].
ContentItem(name, text, references) ==
    [is_dict |-> TRUE, name |-> name, text |-> text, references |-> references]

ContentItems ==
    {ContentItem(n, t, r) :
        n \in {"ph1", "ph2", "zz", None},
        t \in {<<>>, <<" ">>, <<"x">>, <<" ", "x", " ">>, NotAString},
        r \in {<<>>, <<"c1">>}}
    \cup {NotADict}

\* slide_summary stands for parsed["slide_summary"] or parsed["summary"].
ContentPayload(placeholders, slide_summary, citations) ==
    [shape |-> "dict", placeholders |-> placeholders, slide_summary |-> slide_summary,
     citations |-> citations]

CitationLists == {<<>>, <<"c1">>, <<"c2", "c1">>, <<"c1", "c1">>}

GoodItem == ContentItem("ph2", <<"x">>, <<"c1">>)

PairItems == {GoodItem, ContentItem("ph1", <<"y">>, <<"c2">>),
              ContentItem("ph2", <<>>, <<"c2">>), NotADict}

\* Every single entry under a fixed summary and citations; every summary and
\* citations list under a fixed entry; the pairs of PairItems.
ContentPayloads ==
    {ContentPayload(<<it>>, "summary-1", <<"c1">>) : it \in ContentItems}
    \cup {ContentPayload(<<GoodItem>>, s, c) :
            s \in {None, "", "summary-2"}, c \in CitationLists}
    \cup {ContentPayload(<<a, b>>, None, <<>>) : a \in PairItems, b \in PairItems}
    \cup {ContentPayload(<<>>, None, <<>>), [shape |-> "empty_dict"], [shape |-> "list"]}

ContentResponses ==
    {[kind |-> k] : k \in {"raise", "none", "blank", "garbage"}}
    \cup {[kind |-> "parsed", payload |-> p] : p \in ContentPayloads}
    \cup {[kind |-> "text", payload |-> ContentPayload(<<GoodItem>>, "summary-2", <<"c2", "c1">>)]}

\* The responses of the runs of several passes.
PassResponses ==
    {[kind |-> "raise"], [kind |-> "blank"],
     [kind |-> "parsed", payload |-> ContentPayload(<<GoodItem>>, "summary-1", <<"c1">>)],
     [kind |-> "parsed",
      payload |-> ContentPayload(<<ContentItem("ph1", <<"y">>, <<"c2">>)>>, None, <<"c2", "c1">>)],
     [kind |-> "parsed", payload |-> ContentPayload(<<>>, None, <<>>)]}

SlideIds == {"slide_01", "slide_02", "slide_99"}

MaxPasses == 3

\* The documents content generation starts from: outlines over the whole
\* library, the first of them after a generation pass on its first slide (as
\* saved by an earlier session and loaded again), and that document with
\* metadata.references edited out of the uploaded slide.json.
DefaultContext == GenerationContext(<<>>, <<>>, None, FALSE)

OutlineOf(entries) ==
    generate_outline(AllAssets, "structured", <<"s", "t">>, DefaultContext,
        [kind |-> "parsed",
         payload |-> [shape |-> "dict", has_slides |-> TRUE, slides |-> entries]]).document

CoverBodyOutline ==
    OutlineOf(<<OutlineEntry("cover_001", "slide_01", 1, 0, "title", <<"n">>),
                OutlineEntry("body_001", "slide_02", 2, 0, None, <<>>)>>)

StaticBodyOutline ==
    OutlineOf(<<OutlineEntry("static_001", None, 0, 0, None, <<>>),
                OutlineEntry("body_001", None, 0, 0, "title", <<>>)>>)

EarlierPass ==
    generate_for_slide(AllAssets, "structured", CoverBodyOutline, "slide_01", DefaultContext,
        [kind |-> "parsed",
         payload |-> ContentPayload(<<ContentItem("ph2", <<"w">>, <<"c0">>)>>,
                                    "summary-0", <<"c0">>)]).document

LoadedDocument == SlideDocument_from_dict(SlideDocument_to_dict(EarlierPass))

EditedUpload ==
    SlideDocument_from_dict(
        [slides |-> SlideDocument_to_dict(EarlierPass).slides,
         metadata |-> [slide_structure |-> <<"s", "t">>]])

StartDocuments == {CoverBodyOutline, StaticBodyOutline, LoadedDocument, EditedUpload}

\* The documents and slides of the runs of upsert_slide, save and load: the
\* documents from_dict builds from a slide.json, whose slides come in the order
\* of the file, and the outline generate_outline builds from a payload whose
\* first entry carries the slide_id the second entry gets by default.
MaxDocSlides == 2

MaxDocOps == 2

DocSlide(slide_id, page_number, filled) ==
    SlidePage(slide_id, page_number, "cover_001", "cover.pptx",
              IF filled THEN "title" ELSE None,
              IF filled THEN <<SlidePlaceholderContent("ph2", <<"x">>, "generate", <<"c1">>)>>
              ELSE <<>>,
              IF filled THEN [summary |-> None, citations |-> <<"c1">>] ELSE EmptyDict)

DocSlides(fillings) ==
    {DocSlide(i, p, f) : i \in {"slide_01", "slide_02"}, p \in {1, 2}, f \in fillings}

RepeatedIdOutline ==
    OutlineOf(<<OutlineEntry("cover_001", "slide_02", 1, 0, None, <<>>),
                OutlineEntry("cover_001", None, 1, 0, "title", <<>>)>>)

DistinctIds(slides) ==
    \A i \in 1..Len(slides) : \A j \in 1..Len(slides) :
        i # j => slides[i].slide_id # slides[j].slide_id

DocDocuments ==
    {SlideDocument(slides, metadata) :
        slides \in {q \in SeqsUpTo(DocSlides({FALSE, TRUE}), MaxDocSlides) : DistinctIds(q)},
        metadata \in {EmptyDict, [references |-> <<"c1">>]}}
    \cup {RepeatedIdOutline}

\* The responses the collaborator can give to a client that calls it.
ResponsesFor(client, responses) == IF client = "none" THEN {NotCalled} ELSE responses

\* ---- the pptx files and the documents handed to the renderer

\* Layouts of master_template.pptx.  Shape names are those of the layout and
\* need not be the names of the specs: in "Cover" the shape of idx 0 bears
\* the name of the spec of idx 1 and the other way round.
CoverLayout ==
    SlideLayout("Cover", << PlaceholderShape(0, "ph2", "title", TRUE),
                            PlaceholderShape(1, "ph1", "body", TRUE),
                            PlaceholderShape(2, "ph3", "body", TRUE) >>)

BodyLayout ==
    SlideLayout("Body", << PlaceholderShape(0, "Title 1", "title", TRUE),
                           PlaceholderShape(1, "Content 2", "body", TRUE),
                           PlaceholderShape(2, "Content 3", "body", TRUE) >>)

\* A "Body" layout from which the placeholders of idx 1 and 2 were deleted.
ThinBodyLayout ==
    SlideLayout("Body", << PlaceholderShape(0, "Title 1", "title", TRUE) >>)

StaticLayout ==
    SlideLayout("Static", << PlaceholderShape(0, "Text 1", "body", TRUE),
                             PlaceholderShape(1, "Picture 2", "picture", FALSE),
                             PlaceholderShape(10, "Footer 3", "footer", TRUE) >>)

\* A slide left in the master template, which _clear_existing_slides removes.
LeftoverSlide ==
    [placeholders |-> << PlaceholderShape(0, "Title 1", "title", TRUE) >>,
     textboxes |-> << "sample" >>]

Masters ==
    { Presentation(<<CoverLayout, BodyLayout, StaticLayout>>, <<LeftoverSlide>>),
      Presentation(<<CoverLayout, ThinBodyLayout, StaticLayout>>, <<>>),
      Presentation(<<CoverLayout>>, <<>>) }

\* Slide 0 of each asset file; in the second set static.pptx was made from a
\* layout the master template does not have.
SourceFiles ==
    { [f \in {"cover.pptx", "body.pptx", "static.pptx"} |->
          CASE f = "cover.pptx"  -> SourceSlide("Cover", {0, 1, 2}, << "logo" >>)
            [] f = "body.pptx"   -> SourceSlide("Body", {0, 1, 2}, << >>)
            [] f = "static.pptx" -> SourceSlide(layout, {0, 1}, << "note", "logo" >>)]
      : layout \in {"Static", "Legacy"} }

PptxRoot(master, sources, get_by_name) ==
    [master |-> master, sources |-> sources, get_by_name |-> get_by_name]

RenderRoots ==
    { PptxRoot(master, sources, get_by_name) :
        master \in Masters, sources \in SourceFiles,
        get_by_name \in {"raises", "returns_none"} }

DefaultRoot ==
    PptxRoot(Presentation(<<CoverLayout, BodyLayout, StaticLayout>>, <<LeftoverSlide>>),
             [f \in {"cover.pptx", "body.pptx", "static.pptx"} |->
                 CASE f = "cover.pptx"  -> SourceSlide("Cover", {0, 1, 2}, << "logo" >>)
                   [] f = "body.pptx"   -> SourceSlide("Body", {0, 1, 2}, << >>)
                   [] f = "static.pptx" -> SourceSlide("Static", {0, 1}, << "note", "logo" >>)],
             "raises")

MaxRenderSlides == 2

MaxRenders == 2

\* The name and the text of a content no spec of any asset is named after.
StrayName == "Title 1"

StrayText == <<"u">>

RenderAssetIds == {"cover_001", "body_001", "static_001", "ghost_001"}

\* How a slide page is filled: not at all, one content per spec with a title
\* or without, or one content per spec behind a content of a stray name.
Fillings == {"none", "filled", "titled", "stray"}

RenderPage(n, asset_id, filling) ==
    LET specs  == IF asset_id \in AssetIds(AllAssets)
                  THEN get_asset(AllAssets, asset_id).placeholders ELSE <<>>
        filled == [k \in 1..Len(specs) |->
                     SlidePlaceholderContent(specs[k].name, <<"t", specs[k].name>>,
                                             specs[k].edit_policy, <<>>)]
    IN  SlidePage(SlideIdFor(n), n, asset_id,
                  IF asset_id \in AssetIds(AllAssets)
                  THEN get_asset(AllAssets, asset_id).file_name ELSE "",
                  IF filling = "titled" THEN "title" ELSE None,
                  CASE filling = "none"  -> <<>>
                    [] filling = "stray" ->
                         << SlidePlaceholderContent(StrayName, StrayText, "generate", <<>>) >>
                            \o filled
                    [] OTHER -> filled,
                  EmptyDict)

RenderDocuments ==
    { SlideDocument([n \in 1..Len(pages) |-> RenderPage(n, pages[n][1], pages[n][2])],
                    EmptyDict)
      : pages \in SeqsUpTo(RenderAssetIds \X Fillings, MaxRenderSlides) }

\* ------------------------------------------------------------- operations

InitConfig ==
    /\ assets_root = DefaultRoot
    /\ library \in Libraries
    /\ llm_client \in LlmClients
    /\ context \in Contexts
    /\ file = NoFile
    /\ passes = 0

\* generate_outline reads context.additional_notes only, and never web_search.
InitOutline ==
    /\ InitConfig
    /\ llm_client \in {"none", "structured"}
    /\ context.user_request = <<>> /\ context.target_company = <<>>
    /\ ~context.perform_web_search
    /\ document = EmptyDocument
    /\ pre = EmptyDocument
    /\ last = [op |-> "init"]

\* SlideOutlineGenerator(library, llm_client).generate_outline(...), the first
\* request of a session; an exception leaves the session without a document.
GenerateOutline(slide_structure, response) ==
    LET result == generate_outline(library, llm_client, slide_structure, context, response)
    IN  /\ last.op = "init"
        /\ document' = IF result.outcome = "ok" THEN result.document ELSE document
        /\ pre' = document
        /\ last' = [op |-> "generate_outline", outcome |-> result.outcome,
                    named |-> result.named, slide_structure |-> slide_structure, response |-> response,
                    calls |-> result.calls]
        /\ UNCHANGED <<assets_root, library, llm_client, context, file, passes>>

NextOutline ==
    \E slide_structure \in Structures :
        \E response \in ResponsesFor(IF library = <<>> THEN "none" ELSE llm_client,
                                     OutlineResponses) :
            GenerateOutline(slide_structure, response)

SpecOutline == InitOutline /\ [][NextOutline]_vars

InitContent ==
    /\ InitConfig
    /\ library = AllAssets
    /\ document \in StartDocuments
    /\ pre = document
    /\ last = [op |-> "init"]

\* SlideContentGenerator(library, llm_client).generate_for_slide(document,
\* slide_id, context); an exception leaves the document as it was.
GenerateForSlide(slide_id, response) ==
    LET result == generate_for_slide(library, llm_client, document, slide_id, context,
                                     response)
    IN  /\ document' = result.document
        /\ pre' = document
        /\ passes' = passes + 1
        /\ last' = [op |-> "generate_for_slide", outcome |-> result.outcome,
                    named |-> result.named, slide_id |-> slide_id,
                    response |-> response, calls |-> result.calls]
        /\ UNCHANGED <<assets_root, library, llm_client, context, file>>

\* One call on each start document, with every response.
NextSlide ==
    /\ passes = 0
    /\ \E slide_id \in SlideIds :
          \E response \in ResponsesFor(llm_client, ContentResponses) :
              GenerateForSlide(slide_id, response)

SpecSlide == InitContent /\ [][NextSlide]_vars

\* Up to MaxPasses calls in a row on one document.
Next ==
    /\ passes < MaxPasses
    /\ \E slide_id \in SlideIds :
          \E response \in ResponsesFor(llm_client, PassResponses) :
              GenerateForSlide(slide_id, response)

\* The runs of several passes start without user_request and target_company,
\* which the populate placeholders alone read.
InitPasses ==
    /\ InitContent
    /\ context.user_request = <<>>
    /\ context.target_company = <<>>

Spec == InitPasses /\ [][Next]_vars

\* The session of the store: a document held in memory, no slide.json yet.
InitDoc ==
    /\ assets_root = DefaultRoot
    /\ library = AllAssets
    /\ llm_client = "none"
    /\ context = DefaultContext
    /\ file = NoFile
    /\ passes = 0
    /\ document \in DocDocuments
    /\ pre = document
    /\ last = [op |-> "init"]

\* document.upsert_slide(slide)
UpsertSlide(slide) ==
    /\ document' = upsert_slide(document, slide)
    /\ pre' = document
    /\ last' = [op |-> "upsert_slide", slide |-> slide]
    /\ passes' = passes + 1
    /\ UNCHANGED <<assets_root, library, llm_client, context, file>>

\* SlideDocumentStore.save(document).  json.dumps writes the tree to_dict
\* returns and json.loads reads the same tree back (str, int, None, list and
\* dict with str keys are all the values the model holds); the file is that tree.
Save ==
    /\ file' = [exists |-> TRUE, data |-> SlideDocument_to_dict(document)]
    /\ pre' = document
    /\ last' = [op |-> "save"]
    /\ passes' = passes + 1
    /\ UNCHANGED <<assets_root, library, llm_client, context, document>>

\* document = SlideDocumentStore.load()
Load ==
    /\ document' = IF file.exists THEN SlideDocument_from_dict(file.data) ELSE document
    /\ pre' = document
    /\ last' = [op |-> "load",
                outcome |-> IF file.exists THEN "ok" ELSE "FileNotFoundError"]
    /\ passes' = passes + 1
    /\ UNCHANGED <<assets_root, library, llm_client, context, file>>

NextDoc ==
    /\ passes < MaxDocOps
    /\ \/ \E slide \in DocSlides({FALSE, TRUE}) : UpsertSlide(slide)
       \/ Save
       \/ Load

SpecDoc == InitDoc /\ [][NextDoc]_vars

\* The lookups of the catalog, and generate_for_slide on a document whose
\* slides were laid out with the whole catalog while the library at hand
\* holds only some of its assets.
LookupAssetIds == AssetIds(AllAssets) \cup {"ghost_999", ""}

LookupNames == {"ph1", "ph3", "zz", ""}

InitCatalog ==
    /\ InitConfig
    /\ context.user_request = <<>>
    /\ context.target_company = <<>>
    /\ document \in StartDocuments
    /\ pre = document
    /\ last = [op |-> "init"]

\* library.get_asset(asset_id)
GetAsset(asset_id) ==
    LET result == get_asset_call(library, asset_id)
    IN  /\ last' = [op |-> "get_asset", asset_id |-> asset_id,
                    outcome |-> result.outcome, names |-> result.names]
        /\ pre' = document
        /\ passes' = passes + 1
        /\ UNCHANGED <<assets_root, library, llm_client, context, document, file>>

\* library.get_placeholder(asset_id, placeholder_name)
GetPlaceholder(asset_id, placeholder_name) ==
    LET result == get_placeholder(library, asset_id, placeholder_name)
    IN  /\ last' = [op |-> "get_placeholder", asset_id |-> asset_id,
                    placeholder_name |-> placeholder_name,
                    outcome |-> result.outcome, names |-> result.names]
        /\ pre' = document
        /\ passes' = passes + 1
        /\ UNCHANGED <<assets_root, library, llm_client, context, document, file>>

\* One call on each library and start document.
NextCatalog ==
    /\ passes = 0
    /\ \/ \E asset_id \in LookupAssetIds : GetAsset(asset_id)
       \/ \E asset_id \in LookupAssetIds : \E name \in LookupNames :
             GetPlaceholder(asset_id, name)
       \/ \E slide_id \in SlideIds :
             \E response \in ResponsesFor(llm_client, PassResponses) :
                 GenerateForSlide(slide_id, response)

SpecCatalog == InitCatalog /\ [][NextCatalog]_vars

\* ---- rendering: PptxRenderer.render_document on the session's document

InitRender ==
    /\ assets_root \in RenderRoots
    /\ library = AllAssets
    /\ llm_client = "none"
    /\ context = DefaultContext
    /\ file = NoFile
    /\ passes = 0
    /\ document \in RenderDocuments
    /\ pre = document
    /\ last = [op |-> "init"]

\* render_document(document); earlier is what the call before it gave.
Render ==
    /\ passes < MaxRenders
    /\ LET result == render_document(library, assets_root, document)
       IN  /\ document' = result.document
           /\ pre' = document
           /\ last' = [op |-> "render_document", outcome |-> result.outcome,
                       named |-> result.named, missing |-> result.missing,
                       deck |-> result.deck,
                       earlier |-> IF last.op = "render_document"
                                   THEN [rendered |-> TRUE, outcome |-> last.outcome,
                                         deck |-> last.deck]
                                   ELSE [rendered |-> FALSE]]
    /\ passes' = passes + 1
    /\ UNCHANGED <<assets_root, library, llm_client, context, file>>

NextRender == Render

SpecRender == InitRender /\ [][NextRender]_vars

\* ---- populate: generate_for_slide on a slide of one populate placeholder

MaxDescriptionLen == 3

\* The characters of the descriptions: the company token, the "+" that may
\* follow it, a marker, a corner bracket, a blank and a letter.
DescriptionChars == {CompanyToken, "+", "<to-kisai>", "<lb>", " ", "x"}

PopulateDescriptions == SeqsUpTo(DescriptionChars, MaxDescriptionLen)

PopulateLibraries ==
    { << SlideAsset("cover_001", "cover.pptx",
                    << PlaceholderSpec("P1", 0, description, "populate") >>) >>
      : description \in PopulateDescriptions }

PopulateDocument ==
    SlideDocument(<< SlidePage("slide_01", 1, "cover_001", "cover.pptx", None, <<>>,
                               EmptyDict) >>, EmptyDict)

InitPopulate ==
    /\ assets_root = DefaultRoot
    /\ library \in PopulateLibraries
    /\ llm_client = "none"
    /\ context \in {GenerationContext(r, c, None, FALSE) :
                       r \in UserRequests, c \in Companies}
    /\ file = NoFile
    /\ passes = 0
    /\ document = PopulateDocument
    /\ pre = document
    /\ last = [op |-> "init"]

NextPopulate == passes = 0 /\ GenerateForSlide("slide_01", NotCalled)

SpecPopulate == InitPopulate /\ [][NextPopulate]_vars

\* ---- whole documents: generate_for_document

\* An outline whose first entry carries the slide_id the second entry gets by
\* default, the first on an asset with a generate placeholder, the second on
\* one without.
SharedIdOutline ==
    OutlineOf(<<OutlineEntry("cover_001", "slide_02", 1, 0, None, <<>>),
                OutlineEntry("static_001", None, 0, 0, None, <<>>)>>)

\* An uploaded slide.json whose first slide names an asset the catalog lacks.
GhostUpload ==
    SlideDocument_from_dict(
        [slides |-> << [slide_id |-> "slide_01", page |-> 1, asset_id |-> "ghost_001"],
                       [slide_id |-> "slide_02", page |-> 2, asset_id |-> "body_001",
                        asset_file |-> "body.pptx"] >>])

\* The slides of the longest document, each with a response of its own.
MaxDeckSlides == 2

DeckDocuments ==
    {EmptyDocument, CoverBodyOutline, StaticBodyOutline, SharedIdOutline, GhostUpload}

DeckResponses ==
    {[kind |-> "raise"],
     [kind |-> "parsed", payload |-> ContentPayload(<<GoodItem>>, "summary-1", <<"c1">>)],
     [kind |-> "parsed",
      payload |-> ContentPayload(<<ContentItem("ph1", NotAString, <<>>)>>, None, <<>>)]}

InitDeck ==
    /\ assets_root = DefaultRoot
    /\ library = AllAssets
    /\ llm_client \in LlmClients
    /\ context \in {GenerationContext(<<>>, <<>>, None, w) : w \in BOOLEAN}
    /\ file = NoFile
    /\ passes = 0
    /\ document \in DeckDocuments
    /\ pre = document
    /\ last = [op |-> "init"]

\* SlideContentGenerator(library, llm_client).generate_for_document(document,
\* context)
GenerateForDocument(responses) ==
    LET result == generate_for_document(library, llm_client, document, context, responses)
    IN  /\ document' = result.document
        /\ pre' = document
        /\ passes' = passes + 1
        /\ last' = [op |-> "generate_for_document", outcome |-> result.outcome,
                    named |-> result.named, responses |-> responses,
                    calls |-> result.calls, steps |-> result.steps]
        /\ UNCHANGED <<assets_root, library, llm_client, context, file>>

NextDeck ==
    /\ passes = 0
    /\ \E responses \in [1..MaxDeckSlides -> ResponsesFor(llm_client, DeckResponses)] :
          GenerateForDocument(responses)

SpecDeck == InitDeck /\ [][NextDeck]_vars

\* ---- outline entries: generate_outline on payloads that differ in the
\* slide_id, page_number and page of their entries

PositionEntries ==
    {OutlineEntry(a, s, p[1], p[2], None, <<>>) :
        a \in {"cover_001", None},
        s \in {None, "slide_02"},
        p \in {<<0, 0>>, <<2, 0>>, <<0, 1>>}}
    \cup {NotADict}

PositionResponses ==
    {[kind |-> "parsed",
      payload |-> [shape |-> "dict", has_slides |-> TRUE, slides |-> q]] :
        q \in SeqsUpTo(PositionEntries, MaxOutlineEntries)}

InitEntries ==
    /\ InitOutline
    /\ library = AllAssets
    /\ llm_client = "structured"
    /\ context = DefaultContext

NextEntries == \E response \in PositionResponses : GenerateOutline(<<"s", "t">>, response)

SpecEntries == InitEntries /\ [][NextEntries]_vars

\* ------------------------------------------------------------------ claims

OutlineCalled == last.op = "generate_outline"

ResponseEntries(response) ==
    IF response.kind \in {"text", "parsed"} /\ response.payload.shape = "dict"
       /\ response.payload.has_slides
    THEN response.payload.slides ELSE <<>>

\* An entry whose asset_id is present and is not an id of the catalog.
NamesUnknownAsset(raw) ==
    raw.is_dict /\ Truthy(raw.asset_id) /\ raw.asset_id \notin AssetIds(library)

\* C1: generate_outline on a non-empty catalog returns a document with at least
\* one slide and does not raise, whether the collaborator returns a usable
\* payload, no payload, unparsable text, or raises (payloads that name an
\* asset outside the catalog are the subject of C7 and left out here).
C1_FallbackTotality ==
    (/\ OutlineCalled
     /\ library # <<>>
     /\ \A i \in 1..Len(ResponseEntries(last.response)) :
            ~NamesUnknownAsset(ResponseEntries(last.response)[i]))
    => (last.outcome = "ok" /\ Len(document.slides) >= 1)

\* The entries with every entry of an unknown asset replaced by one the loop
\* skips; positions are kept.
WithoutUnknownAssets(entries) ==
    [i \in 1..Len(entries) |-> IF NamesUnknownAsset(entries[i]) THEN NotADict ELSE entries[i]]

\* C7: an entry of the returned slides whose asset_id is missing or is not in
\* the catalog is skipped: generate_outline does not abort, and the document
\* holds exactly the slides of the remaining entries (the fallback slides when
\* there is none).
C7_InvalidEntriesSkipped ==
    (OutlineCalled /\ library # <<>> /\ ResponseEntries(last.response) # <<>>)
    => LET kept   == WithoutUnknownAssets(ResponseEntries(last.response))
           slides == SortByPage(CollectOutlineSlides(library, kept, Len(kept)))
       IN  /\ last.outcome = "ok"
           /\ document.slides = IF slides = <<>> THEN _fallback_outline(library, <<>>)
                                ELSE slides

\* ---- content generation

ContentCalled == last.op = "generate_for_slide"

References(d) == Get(d.metadata, "references", <<>>)

\* The slide the last generate_for_slide was asked for, before and after it,
\* and its asset (meaningful when the document holds the slide).
TargetBefore == pre.slides[IndexOfSlide(pre.slides, last.slide_id)]

TargetAfter == document.slides[IndexOfSlide(document.slides, last.slide_id)]

TargetAsset == get_asset(library, TargetBefore.asset_id)

GenerateSpecs(asset) ==
    {k \in 1..Len(asset.placeholders) : Lower(asset.placeholders[k].edit_policy) = "generate"}

CitationsOf(slide) == Get(slide.notes, "citations", <<>>)

CitationRank(c) == CHOOSE n \in 1..Len(CitationOrder) : CitationOrder[n] = c

\* sorted and without a repeated item
StrictlyAscending(q) ==
    \A i \in 1..Len(q) : \A j \in 1..Len(q) :
        i < j => CitationRank(q[i]) < CitationRank(q[j])

\* C2: over any sequence of generate_for_slide calls on one document, every
\* item of metadata.references before a call is still in it after the call.
C2_MonotonicReferences ==
    [][Range(References(document)) \subseteq Range(References(document'))]_vars

\* C2 witness: a second or later call that added to a non-empty references list.
C2_ReferencesGrew ==
    /\ ContentCalled /\ passes >= 2
    /\ References(pre) # <<>>
    /\ Range(References(document)) # Range(References(pre))

\* The collaborator was called for the slide and raised.
CollaboratorRaised ==
    ContentCalled /\ last.response.kind = "raise" /\ last.calls.structured = 1

\* C3 as stated: when the collaborator raises, generate_for_slide returns
\* normally, every generate placeholder of the slide has its spec description as
\* text, and metadata.references is what it was before the call.
C3_AsStated ==
    CollaboratorRaised
    => /\ last.outcome = "ok"
       /\ \A k \in GenerateSpecs(TargetAsset) :
              TargetAfter.placeholders[k].text = TargetAsset.placeholders[k].description
       /\ References(document) = References(pre)

\* C3 amended: when the collaborator raises, generate_for_slide returns
\* normally, every generate placeholder of the slide has its spec description
\* with leading and trailing whitespace stripped as text, and
\* metadata.references holds what it held before plus the citations the slide's
\* notes already carried: it is unchanged when those were all in it already.
C3_RaiseFallsBack ==
    CollaboratorRaised
    => /\ last.outcome = "ok"
       /\ \A k \in GenerateSpecs(TargetAsset) :
              TargetAfter.placeholders[k].text
                  = Strip(TargetAsset.placeholders[k].description)
       /\ Range(References(document))
              = Range(References(pre)) \cup Range(CitationsOf(TargetBefore))
       /\ Range(CitationsOf(TargetBefore)) \subseteq Range(References(pre))
              => document.metadata = pre.metadata

\* C3 witness: the collaborator raised on a slide with a generate placeholder
\* whose description has whitespace around it.
C3_RaisedOnPaddedDescription ==
    /\ CollaboratorRaised
    /\ last.outcome = "ok"
    /\ \E k \in GenerateSpecs(TargetAsset) :
          /\ Strip(TargetAsset.placeholders[k].description)
                 # TargetAsset.placeholders[k].description
          /\ TargetAfter.placeholders[k].text # <<>>

\* The entries of the payload the collaborator returned, and those naming a
\* placeholder.
ReturnedItems ==
    IF last.response.kind \in {"text", "parsed"} /\ last.response.payload.shape = "dict"
    THEN last.response.payload.placeholders ELSE <<>>

Naming(name) ==
    {i \in 1..Len(ReturnedItems) : ReturnedItems[i].is_dict /\ ReturnedItems[i].name = name}

\* a str with something other than whitespace in it
HasText(item) == item.text # NotAString /\ Strip(item.text) # <<>>

PayloadReturned ==
    /\ ContentCalled /\ last.calls.structured = 1
    /\ last.response.kind \in {"text", "parsed"}
    /\ last.response.payload.shape = "dict"

WellFormed ==
    \A i \in 1..Len(ReturnedItems) :
        ReturnedItems[i].is_dict /\ ReturnedItems[i].text # NotAString

C5_GenerateTextNonEmpty ==
    (ContentCalled /\ last.outcome = "ok")
    => \A k \in 1..Len(TargetAfter.placeholders) :
           TargetAfter.placeholders[k].policy = "generate"
           => TargetAfter.placeholders[k].text # <<>>

\* C6: for a slide whose asset has only fixed and populate placeholders,
\* generate_for_slide makes no call to the collaborator, neither
\* generate_structured_output nor web_search, whatever the context.
C6_NoCallsWithoutGenerate ==
    (/\ ContentCalled
     /\ IndexOfSlide(pre.slides, last.slide_id) # 0
     /\ GenerateSpecs(TargetAsset) = {})
    => last.calls = NoCalls

\* C10: generate_for_slide with a slide_id the document does not hold fails
\* with an error naming that id, calls the collaborator not at all and leaves
\* the document as it was.
C10_UnknownSlideId ==
    (/\ ContentCalled
     /\ \A i \in 1..Len(pre.slides) : pre.slides[i].slide_id # last.slide_id)
    => /\ last.outcome = "KeyError"
       /\ last.named = last.slide_id
       /\ last.calls = NoCalls
       /\ document = pre

\* C10 witness: an unknown id given to a generator whose collaborator offers
\* web_search, with web search asked for, on a document that holds slides.
C10_UnknownIdWithWebSearch ==
    /\ ContentCalled
    /\ last.slide_id = "slide_99"
    /\ llm_client = "structured+web_search" /\ context.perform_web_search
    /\ pre.slides # <<>>
    /\ last.outcome = "KeyError"

\* ---- documents and the store

\* C8: from_dict(to_dict(d)) equals d for the document of every state, a saved
\* file holds the serialized form of the document, and a loaded document has
\* the serialized form the file holds.
C8_RoundTrip ==
    /\ SlideDocument_from_dict(SlideDocument_to_dict(document)) = document
    /\ last.op = "save" => file.data = SlideDocument_to_dict(document)
    /\ (last.op = "load" /\ last.outcome = "ok")
           => SlideDocument_to_dict(document) = file.data

\* C8 witness: a document with a filled slide on page 2 and references in its
\* metadata was saved and loaded again.
C8_FilledDocumentLoaded ==
    /\ last.op = "load" /\ last.outcome = "ok"
    /\ "references" \in DOMAIN document.metadata
    /\ \E i \in 1..Len(document.slides) :
          /\ document.slides[i].page_number = 2
          /\ document.slides[i].placeholders # <<>>
          /\ document.slides[i].title # None

BagOfSlides(slides) ==
    [x \in Range(slides) |-> Cardinality({i \in 1..Len(slides) : slides[i] = x})]

\* C9: upsert_slide(s) replaces the first slide with s.slide_id at its
\* position, or appends s when there is none, keeps every other slide, leaves
\* the slides in ascending page order, and a second upsert_slide(s) leaves the
\* document as the first one left it.
C9_UpsertIdempotent ==
    last.op = "upsert_slide"
    => LET s        == last.slide
           matches  == {i \in 1..Len(pre.slides) : pre.slides[i].slide_id = s.slide_id}
           replaced == IF matches = {} THEN Append(pre.slides, s)
                       ELSE [pre.slides EXCEPT ![Min(matches)] = s]
       IN  /\ BagOfSlides(document.slides) = BagOfSlides(replaced)
           /\ \A i \in 1..(Len(document.slides) - 1) :
                  document.slides[i].page_number <= document.slides[i + 1].page_number
           /\ document.metadata = pre.metadata
           /\ upsert_slide(document, s) = document

\* ---- catalog lookups

\* The slide of the last generate_for_slide is in the document and its
\* asset_id is not an id of the library.
SlideOfUnknownAsset ==
    /\ ContentCalled
    /\ IndexOfSlide(pre.slides, last.slide_id) # 0
    /\ TargetBefore.asset_id \notin AssetIds(library)

\* C11: get_asset of an id outside the catalog and get_placeholder of a name
\* the asset does not define raise an error naming the id or the name, and
\* generate_for_slide on a slide whose asset_id is outside the catalog raises
\* naming it, with no collaborator call made and the document left as it was.
C11_UnknownLookupsFatal ==
    /\ (last.op = "get_asset" /\ last.asset_id \notin AssetIds(library))
           => (last.outcome = "KeyError" /\ last.asset_id \in last.names)
    /\ (last.op = "get_placeholder" /\ last.asset_id \notin AssetIds(library))
           => (last.outcome = "KeyError" /\ last.asset_id \in last.names)
    /\ (/\ last.op = "get_placeholder"
        /\ last.asset_id \in AssetIds(library)
        /\ \A k \in 1..Len(get_asset(library, last.asset_id).placeholders) :
               get_asset(library, last.asset_id).placeholders[k].name
                   # last.placeholder_name)
           => (last.outcome = "KeyError" /\ last.placeholder_name \in last.names)
    /\ SlideOfUnknownAsset
           => /\ last.outcome = "KeyError"
              /\ last.named = TargetBefore.asset_id
              /\ last.calls = NoCalls
              /\ document = pre

\* C11 witness: generate_for_slide met a slide of an asset outside the
\* catalog, with a collaborator offering web_search and web search asked for.
C11_UnknownAssetWithWebSearch ==
    /\ SlideOfUnknownAsset
    /\ llm_client = "structured+web_search" /\ context.perform_web_search
    /\ last.outcome = "KeyError"

\* ---- rendering

Rendered == last.op = "render_document"

\* The slide pages whose asset the catalog has a spec list for.
SpecsOfPage(page) == get_asset(library, page.asset_id).placeholders

\* The text the document holds for a spec: that of the content of the spec's
\* name, the description of the spec when the page has no such content.
TextFor(page, spec) ==
    IF \E c \in Range(page.placeholders) : c.name = spec.name
    THEN (CHOOSE c \in Range(page.placeholders) : c.name = spec.name).text
    ELSE spec.description

\* The contents of a page that bear the name of no spec of its asset.
StrayContents(page) ==
    {c \in Range(page.placeholders) :
        \A spec \in Range(SpecsOfPage(page)) : spec.name # c.name}

\* The document without the contents that bear the name of no spec.
WithoutStrayContents(doc) ==
    [doc EXCEPT !.slides =
        [k \in 1..Len(doc.slides) |->
            IF doc.slides[k].asset_id \notin AssetIds(library) THEN doc.slides[k]
            ELSE [doc.slides[k] EXCEPT !.placeholders =
                     SelectSeq(@, LAMBDA c : c \notin StrayContents(doc.slides[k]))]]]

\* C12: a content whose name matches no spec of the asset changes nothing of
\* the render: the outcome and the slides are those of the document without
\* it, and no shape bears its text.  A shape with a text frame whose idx is
\* that of a spec bears the text the document holds for that spec (unless it
\* is the title shape of a titled page), whatever the name of the shape.
C12_ContentBoundByIdx ==
    Rendered =>
        /\ last.outcome = render_document(library, assets_root, WithoutStrayContents(pre)).outcome
        /\ last.deck = render_document(library, assets_root, WithoutStrayContents(pre)).deck
        /\ last.outcome = "ok" =>
              /\ Len(last.deck) = Len(pre.slides)
              /\ \A k \in 1..Len(last.deck) :
                    LET shapes == last.deck[k].placeholders
                        page   == pre.slides[k]
                    IN  /\ \A i \in 1..Len(shapes), c \in StrayContents(page) :
                              shapes[i].text # WrittenText(c.text)
                        /\ \A i \in 1..Len(shapes), spec \in Range(SpecsOfPage(page)) :
                              (/\ shapes[i].idx = spec.idx
                               /\ shapes[i].has_text_frame
                               /\ shapes[i].text.by # "title")
                                  => shapes[i].text = WrittenText(TextFor(page, spec))

\* A page of cover_001, whose shapes bear the names of other specs, and a
\* page of body_001 with a content named after a shape were rendered.
C12_StrayContentRendered ==
    /\ Rendered
    /\ last.outcome = "ok"
    /\ Len(pre.slides) = 2
    /\ pre.slides[1].asset_id = "cover_001"
    /\ pre.slides[2].asset_id = "body_001"
    /\ StrayContents(pre.slides[2]) # {}
    /\ \E i \in 1..Len(last.deck[2].placeholders) :
          last.deck[2].placeholders[i].name = StrayName

\* The source slide of a page and the layouts of the master template that
\* bear the name of its layout.
SourceOf(page) == assets_root.sources[get_asset(library, page.asset_id).file_name]

LayoutsNamed(page) ==
    {i \in 1..Len(assets_root.master.layouts) :
        assets_root.master.layouts[i].name = SourceOf(page).layout_name}

\* A slide is created in the destination for the page: its asset is known and
\* a layout is found, by name or as the second layout of the master template.
SlideCreated(page) ==
    /\ page.asset_id \in AssetIds(library)
    /\ \/ LayoutsNamed(page) # {}
       \/ assets_root.get_by_name = "raises" /\ Len(assets_root.master.layouts) >= 2

\* The idx the source slide defines and the created slide lacks.
LackedBy(page) ==
    LET layout == IF LayoutsNamed(page) # {}
                  THEN assets_root.master.layouts[Min(LayoutsNamed(page))]
                  ELSE assets_root.master.layouts[2]
    IN  SourceOf(page).placeholder_indices \ {shape.idx : shape \in Range(layout.placeholders)}

\* The pages before page k all gave a complete slide.
CompleteBefore(k) ==
    \A j \in 1..(k - 1) : SlideCreated(pre.slides[j]) /\ LackedBy(pre.slides[j]) = {}

\* C13: when a slide created in the destination lacks an idx its source slide
\* defines, render_document ends in a RuntimeError that lists the lacking idx
\* in ascending order and returns no deck; a render that ends well has one
\* slide per page, each with every idx of its source slide.
C13_MissingIndicesFatal ==
    Rendered =>
        /\ \A k \in 1..Len(pre.slides) :
              (/\ CompleteBefore(k)
               /\ SlideCreated(pre.slides[k])
               /\ LackedBy(pre.slides[k]) # {})
                  => /\ last.outcome = "RuntimeError"
                     /\ Range(last.missing) = LackedBy(pre.slides[k])
                     /\ \A i \in 1..(Len(last.missing) - 1) :
                           last.missing[i] < last.missing[i + 1]
                     /\ last.deck = <<>>
        /\ last.outcome = "ok" =>
              /\ Len(last.deck) = Len(pre.slides)
              /\ \A k \in 1..Len(pre.slides) :
                    SourceOf(pre.slides[k]).placeholder_indices
                        \subseteq {shape.idx : shape \in Range(last.deck[k].placeholders)}

\* The second page lacked two idx after the first page had given its slide.
C13_SecondSlideLacksTwo ==
    /\ Rendered
    /\ Len(pre.slides) = 2
    /\ pre.slides[1].asset_id = "cover_001"
    /\ pre.slides[2].asset_id = "body_001"
    /\ last.outcome = "RuntimeError"
    /\ last.missing = <<1, 2>>

\* C14: render_document leaves the document as it was, and a second render
\* of the document ends as the first did, with the same slides bearing the
\* same texts.
C14_RenderRepeatable ==
    Rendered =>
        /\ document = pre
        /\ last.earlier.rendered =>
              /\ last.outcome = last.earlier.outcome
              /\ Len(last.deck) = Len(last.earlier.deck)
              /\ \A k \in 1..Len(last.deck) :
                    last.deck[k].placeholders = last.earlier.deck[k].placeholders

\* A document of an unfilled page and a titled page was rendered twice.
C14_RenderedTwice ==
    /\ Rendered
    /\ last.earlier.rendered
    /\ last.outcome = "ok"
    /\ Len(last.deck) = 2
    /\ pre.slides[1].placeholders = <<>>
    /\ pre.slides[2].title = "title"
    /\ \E i \in 1..Len(last.deck[2].placeholders) :
          last.deck[2].placeholders[i].text = WrittenTitle("title")

\* ---- populate

\* context.target_company, else the entity inferred from the request, else
\* the generic word.
ChosenCompany ==
    IF context.target_company # <<>> THEN context.target_company
    ELSE IF _infer_target_entity(context.user_request) # <<>>
    THEN _infer_target_entity(context.user_request)
    ELSE GenericCompany

\* The places of t where sub begins.
OccurrencesOf(sub, t) ==
    {i \in 1..(Len(t) - Len(sub) + 1) : SubSeq(t, i, i + Len(sub) - 1) = sub}

\* The description of the populate placeholder and the text generated for it.
PopulateDescription == TargetAsset.placeholders[1].description

PopulateText == TargetAfter.placeholders[1].text

\* The company tokens of the description, and those no marker precedes.
TokensOf(description) == {p \in 1..Len(description) : description[p] = CompanyToken}

TokensBeforeMarker(description) ==
    {p \in TokensOf(description) : \A q \in 1..(p - 1) : description[q] \notin Markers}

DocumentCalled == last.op = "generate_for_document"

\* The slides of a document whose asset has a generate placeholder.
SlidesWithGenerate(doc) ==
    {k \in 1..Len(doc.slides) :
        /\ doc.slides[k].asset_id \in AssetIds(library)
        /\ HasGenerate(get_asset(library, doc.slides[k].asset_id))}

\* The slide the k-th generate_for_slide of the loop finds under the slide_id
\* of the k-th slide.
FoundFor(k) == IndexOfSlide(pre.slides, pre.slides[k].slide_id)

\* C16: each generate_for_slide of a generate_for_document issues one
\* structured-output call when the asset of its slide has a generate
\* placeholder and a collaborator is configured, and none otherwise; a
\* generate_for_document that returns has issued, with a collaborator, as
\* many as the document has slides with a generate placeholder.
C16_OneCallPerGenerateSlide ==
    DocumentCalled =>
        /\ \A k \in 1..Len(last.steps) :
              last.steps[k] =
                  IF llm_client # "none" /\ FoundFor(k) \in SlidesWithGenerate(pre)
                  THEN 1 ELSE 0
        /\ last.outcome = "ok" =>
              last.calls.structured =
                  IF llm_client # "none" THEN Cardinality(SlidesWithGenerate(pre)) ELSE 0

\* ---- exceptions inside the try block

\* The structured-output call was made and the call or the parsing of its
\* response raised: the collaborator raised, the payload is a list
\* (parsed.get raises), or an entry of placeholders is not a dict (item.get
\* raises).
RaisedInTry ==
    /\ ContentCalled /\ last.calls.structured = 1
    /\ \/ last.response.kind = "raise"
       \/ /\ last.response.kind \in {"text", "parsed"}
          /\ \/ last.response.payload.shape = "list"
             \/ /\ last.response.payload.shape = "dict"
                /\ \E i \in 1..Len(last.response.payload.placeholders) :
                      ~last.response.payload.placeholders[i].is_dict

\* C17: when the call or the parsing raised, every generate placeholder of the
\* slide has its description (stripped) as text, and the summary and the
\* citations of the notes are those the slide had before.
C17_ExceptionFallsBackToDescriptions ==
    (RaisedInTry /\ last.outcome = "ok")
        => /\ \A k \in GenerateSpecs(TargetAsset) :
                 TargetAfter.placeholders[k].text
                     = Strip(TargetAsset.placeholders[k].description)
           /\ Get(TargetAfter.notes, "summary", None) = Get(TargetBefore.notes, "summary", None)
           /\ CitationsOf(TargetAfter) = CitationsOf(TargetBefore)

\* ---- notes

\* What the combined call yields: the summary and the citations of a dict
\* payload that was read to its end, nothing otherwise.
PayloadRead ==
    /\ PayloadReturned
    /\ \A i \in 1..Len(last.response.payload.placeholders) :
          last.response.payload.placeholders[i].is_dict

YieldedSummary == IF PayloadRead THEN last.response.payload.slide_summary ELSE None

YieldedCitations == IF PayloadRead THEN last.response.payload.citations ELSE <<>>

\* C18: after a generate_for_slide that returns, notes.summary is the summary
\* the call yielded, when it yielded one that is not empty, and otherwise what
\* the slide had, None if it had none; notes.citations is the list the call
\* yielded, when it is not empty, and otherwise what the slide had, [] if it
\* had none.
C18_NotesOverwrittenOrKept ==
    (ContentCalled /\ last.outcome = "ok")
        => /\ {"summary", "citations"} \subseteq DOMAIN TargetAfter.notes
           /\ TargetAfter.notes["summary"] =
                 IF YieldedSummary \notin {None, ""} THEN YieldedSummary
                 ELSE Get(TargetBefore.notes, "summary", None)
           /\ TargetAfter.notes["citations"] =
                 IF YieldedCitations # <<>> THEN YieldedCitations
                 ELSE Get(TargetBefore.notes, "citations", <<>>)

\* A slide with a summary and citations of an earlier pass was generated
\* again and the call yielded an empty summary and no citations.
C18_EmptyValuesKeepNotes ==
    /\ ContentCalled /\ last.outcome = "ok"
    /\ PayloadRead
    /\ YieldedSummary = ""
    /\ YieldedCitations = <<>>
    /\ "summary" \in DOMAIN TargetBefore.notes
    /\ TargetAfter.notes["summary"] = "summary-0"
    /\ TargetAfter.notes["citations"] = <<"c0">>

\* ---- outline metadata

\* C19: the document a generate_outline returns has the slide_structure it
\* was given in metadata.slide_structure and, when context.additional_notes is
\* present, those notes in metadata.user_notes.
C19_OutlineMetadataStored ==
    (OutlineCalled /\ last.outcome = "ok")
        => /\ Get(document.metadata, "slide_structure", <<>>) = last.slide_structure
           /\ "slide_structure" \in DOMAIN document.metadata
           /\ Truthy(context.additional_notes)
                 => /\ "user_notes" \in DOMAIN document.metadata
                    /\ document.metadata["user_notes"] = context.additional_notes

\* ---- outline defaults

\* The entries of the payload that give a slide: the dicts with an asset_id.
KeptEntries ==
    {i \in 1..Len(ResponseEntries(last.response)) :
        /\ ResponseEntries(last.response)[i].is_dict
        /\ Truthy(ResponseEntries(last.response)[i].asset_id)}

\* generate_outline built the slides from the entries of the payload.
BuiltFromEntries ==
    /\ OutlineCalled /\ last.outcome = "ok" /\ last.calls.structured = 1
    /\ KeptEntries # {}

\* The page number of the slide of entry i: page_number, else page, else the
\* 1-based position of the entry in the payload.
PageOfEntry(i) ==
    LET raw == ResponseEntries(last.response)[i]
    IN  IF raw.page_number # 0 THEN raw.page_number
        ELSE IF raw.page # 0 THEN raw.page ELSE i

\* The slide ids and page numbers of the document's slides.
IdsAndPages == {<<s.slide_id, s.page_number>> : s \in Range(document.slides)}

SortedByPage ==
    \A i \in 1..Len(document.slides) : \A j \in i..Len(document.slides) :
        document.slides[i].page_number <= document.slides[j].page_number

\* C20 as stated: each entry gives a slide whose page_number defaults to the
\* position of the entry and whose slide_id defaults to slide_NN formatted from
\* the page_number of the slide, and the slides are in ascending page order.
C20_AsStated ==
    BuiltFromEntries
        => /\ Len(document.slides) = Cardinality(KeptEntries)
           /\ IdsAndPages =
                 {<<IF Truthy(ResponseEntries(last.response)[i].slide_id)
                    THEN ResponseEntries(last.response)[i].slide_id
                    ELSE SlideIdFor(PageOfEntry(i)),
                    PageOfEntry(i)>> : i \in KeptEntries}
           /\ SortedByPage

\* C20: each entry gives a slide whose page_number defaults to the position
\* of the entry and whose slide_id defaults to slide_NN formatted from the
\* position of the entry in the payload, whatever its page_number; the slides
\* are in ascending page order.
C20_IdFromPosition ==
    BuiltFromEntries
        => /\ Len(document.slides) = Cardinality(KeptEntries)
           /\ IdsAndPages =
                 {<<IF Truthy(ResponseEntries(last.response)[i].slide_id)
                    THEN ResponseEntries(last.response)[i].slide_id
                    ELSE SlideIdFor(i),
                    PageOfEntry(i)>> : i \in KeptEntries}
           /\ SortedByPage

\* The first entry named page 2 and no slide_id, the second neither: the
\* slides are slide_01 and slide_02, both on page 2.
C20_FirstEntryOnPageTwo ==
    /\ BuiltFromEntries
    /\ KeptEntries = {1, 2}
    /\ ResponseEntries(last.response)[1].page_number = 2
    /\ ~Truthy(ResponseEntries(last.response)[1].slide_id)
    /\ IdsAndPages = {<<"slide_01", 2>>, <<"slide_02", 2>>}

\* ---- outline fallback

\* generate_outline returned the fallback outline: no collaborator, no usable
\* payload, or a payload none of whose entries gives a slide.
FellBack == OutlineCalled /\ last.outcome = "ok" /\ KeptEntries = {}

\* The payload was usable (a list, or a dict that is not empty) and gave no
\* slide.
ZeroUsableSlides ==
    /\ FellBack /\ last.calls.structured = 1
    /\ last.response.kind \in {"text", "parsed"}
    /\ last.response.payload.shape \in {"list", "dict"}

\* C21: on every path that reaches the fallback the slides are those of the
\* first two assets of the catalog, slide_01 and slide_02 on pages 1 and 2,
\* with the generic titles and the first characters of the slide_structure
\* as outline notes.
C21_FallbackSameOnAllPaths ==
    FellBack =>
        document.slides =
            [idx \in 1..Min({2, Len(library)}) |->
                SlidePage(SlideIdFor(idx), idx, library[idx].asset_id,
                          library[idx].file_name, FallbackTitle(idx), <<>>,
                          [outline_notes |-> Take(last.slide_structure, OutlineNotesLimit)])]


\* ------------------------------------------------- research text of the prompt

ResearchLimit == 1500

\* _truncate_text: the stripped text; a text longer than the limit is
\* shortened and ends with an ellipsis.
_truncate_text(text, limit) ==
    LET t == Strip(text)
    IN  IF Len(t) <= limit THEN t ELSE Append(Take(t, limit - 1), "...")

\* ", ".join(urls)
RECURSIVE JoinUrls(_)
JoinUrls(urls) ==
    IF Len(urls) <= 1 THEN urls
    ELSE <<Head(urls), ", ">> \o JoinUrls(Tail(urls))

\* What the collaborator's web_search does when it is called: it raises,
\* returns None, or returns a response with a text and the urls of its
\* citations.
WebSearchResponse(text, urls) == [kind |-> "response", text |-> text, urls |-> urls]

WebSearchResponses ==
    {[kind |-> "raise"], [kind |-> "none"]}
    \cup {WebSearchResponse(t, u) :
            t \in {<<>>, <<"w", "e", "b">>}, u \in {<<>>, <<"u1">>, <<"u1", "u2">>}}

\* _maybe_perform_web_search: the calls of web_search it makes, the snippet
\* it returns (<<>> for None) and how it ends; whatever web_search raises is
\* caught and logged.
_maybe_perform_web_search(ctx, client, search) ==
    IF ~ctx.perform_web_search \/ client # "structured+web_search"
    THEN [outcome |-> "ok", calls |-> 0, snippet |-> <<>>]
    ELSE [outcome |-> "ok", calls |-> 1,
          snippet |-> IF search.kind # "response" THEN <<>>
                      ELSE IF search.text # <<>> THEN search.text
                      ELSE IF search.urls # <<>>
                      THEN <<"results: ">> \o JoinUrls(search.urls)
                      ELSE <<>>]

NoResearch == [header |-> "none", body |-> <<>>]

\* A prompt that prefers the result of the web search to external_research.
WebFirstSection(ctx, research_snippet) ==
    IF research_snippet # <<>>
    THEN [header |-> "web_research",
          body   |-> _truncate_text(research_snippet, ResearchLimit)]
    ELSE IF ctx.external_research # <<>>
    THEN [header |-> "external_research",
          body   |-> _truncate_text(ctx.external_research, ResearchLimit)]
    ELSE NoResearch

\* The research section _build_prompt puts in the prompt.
ResearchSection(ctx, research_snippet) ==
    IF ctx.external_research # <<>>
    THEN [header |-> "external_research",
          body   |-> _truncate_text(ctx.external_research, ResearchLimit)]
    ELSE IF research_snippet # <<>>
    THEN [header |-> "web_research",
          body   |-> _truncate_text(research_snippet, ResearchLimit)]
    ELSE NoResearch

\* The prompt generate_for_slide sends for the slide: whether one is built
\* (the slide and its asset are found, the asset has a generate placeholder
\* and there is a collaborator) and its research section.
PromptOf(assets, client, doc, slide_id, ctx, search) ==
    LET i == IndexOfSlide(doc.slides, slide_id)
    IN  IF i = 0 \/ doc.slides[i].asset_id \notin AssetIds(assets)
        THEN [searched |-> FALSE, built |-> FALSE, research |-> NoResearch]
        ELSE LET asset == get_asset(assets, doc.slides[i].asset_id)
                 web   == _maybe_perform_web_search(ctx, client, search)
             IN  [searched |-> TRUE,
                  built    |-> HasGenerate(asset) /\ client # "none",
                  research |-> IF HasGenerate(asset) /\ client # "none"
                               THEN ResearchSection(ctx, web.snippet)
                               ELSE NoResearch]

ResearchContexts ==
    {[user_request |-> <<>>, target_company |-> <<>>, additional_notes |-> None,
      perform_web_search |-> w, external_research |-> e] :
        w \in BOOLEAN, e \in {<<>>, <<"e", "r", " ">>, <<" ">>}}

InitResearch ==
    /\ assets_root = DefaultRoot
    /\ library = AllAssets
    /\ llm_client \in LlmClients
    /\ context \in ResearchContexts
    /\ file = NoFile
    /\ passes = 0
    /\ document \in {CoverBodyOutline, StaticBodyOutline}
    /\ pre = document
    /\ last = [op |-> "init"]

\* generate_for_slide, with what web_search does and the prompt recorded
GenerateWithResearch(slide_id, response, search) ==
    LET result == generate_for_slide(library, llm_client, document, slide_id, context,
                                     response)
        web    == _maybe_perform_web_search(context, llm_client, search)
        prompt == PromptOf(library, llm_client, document, slide_id, context, search)
        raised == prompt.searched /\ web.outcome # "ok"
    IN  /\ document' = IF raised THEN document ELSE result.document
        /\ pre' = document
        /\ passes' = passes + 1
        /\ last' = [op |-> "generate_for_slide",
                    outcome |-> IF raised THEN web.outcome ELSE result.outcome,
                    named |-> result.named, slide_id |-> slide_id,
                    response |-> response, calls |-> result.calls,
                    search |-> search, prompt |-> prompt]
        /\ UNCHANGED <<assets_root, library, llm_client, context, file>>

NextResearch ==
    /\ passes = 0
    /\ \E slide_id \in SlideIds :
          \E response \in ResponsesFor(llm_client, PassResponses) :
              \E search \in WebSearchResponses :
                  GenerateWithResearch(slide_id, response, search)

SpecResearch == InitResearch /\ [][NextResearch]_vars

SearchEnabled == context.perform_web_search /\ llm_client = "structured+web_search"

\* C22: generate_for_slide calls web_search at most once, and only with
\* perform_web_search set and a collaborator that has web_search; it does call
\* it then, once the slide and its asset are found.  When external_research
\* is given the prompt's research section is external_research and not the
\* result of the search.  A search that raises leaves the prompt without a
\* research section and the generation runs as without it.
C22_WebSearchGatedAndSecond ==
    last.op = "generate_for_slide" =>
        /\ last.calls.web_search = IF SearchEnabled /\ last.prompt.searched THEN 1 ELSE 0
        /\ (last.prompt.built /\ context.external_research # <<>>) =>
              last.prompt.research = [header |-> "external_research",
                                      body   |-> Strip(context.external_research)]
        /\ (last.search.kind = "raise" /\ last.prompt.built
               /\ context.external_research = <<>>) =>
              last.prompt.research = NoResearch
        /\ last.search.kind = "raise" =>
              /\ last.outcome \in {"ok", "KeyError", "AttributeError"}
              /\ last.outcome = "KeyError" => ~last.prompt.searched
              /\ last.outcome = "AttributeError" => last.calls.structured = 1
              /\ (last.prompt.searched /\ last.response.kind = "blank") =>
                    /\ last.outcome = "ok"
                    /\ Len(document.slides[IndexOfSlide(document.slides, last.slide_id)].placeholders) > 0

\* A search that was made and found a text, with external_research given.
C22_Witness ==
    /\ last.op = "generate_for_slide" /\ last.outcome = "ok"
    /\ last.calls.web_search = 1
    /\ last.search.kind = "response" /\ last.search.text # <<>>
    /\ context.external_research = <<"e", "r", " ">>
    /\ last.prompt.research.body = <<"e", "r">>

\* ---- generate_for_document fills every slide

\* C23: when generate_for_document returns, the document has the slides it
\* had, in the same order, and every one of them has the placeholders of its
\* own asset, one per PlaceholderSpec and in the order of the specs.
C23_EverySlidePopulated ==
    (last.op = "generate_for_document" /\ last.outcome = "ok") =>
        /\ Len(document.slides) = Len(pre.slides)
        /\ \A k \in 1..Len(document.slides) :
              /\ document.slides[k].slide_id = pre.slides[k].slide_id
              /\ document.slides[k].asset_id = pre.slides[k].asset_id
              /\ [i \in 1..Len(document.slides[k].placeholders) |->
                     document.slides[k].placeholders[i].name]
                 = [i \in 1..Len(get_asset(library, document.slides[k].asset_id).placeholders) |->
                     get_asset(library, document.slides[k].asset_id).placeholders[i].name]

\* ------------------------------------------- a session on a stored slide.json

MaxStoreOps == 2

RECURSIVE Reversed(_)
Reversed(q) == IF q = <<>> THEN <<>> ELSE Append(Reversed(Tail(q)), Head(q))

\* The slide.json the session finds: written by save after an outline or a
\* content pass, or the same file with its "slides" array in another order.
StoredDocuments ==
    LET saved == {CoverBodyOutline, StaticBodyOutline, SharedIdOutline, EarlierPass}
    IN  saved \cup {[d EXCEPT !.slides = Reversed(d.slides)] : d \in saved}

StoreFiles == {[exists |-> TRUE, data |-> SlideDocument_to_dict(d)] : d \in StoredDocuments}

StoreResponses ==
    {[kind |-> "raise"],
     [kind |-> "parsed", payload |-> ContentPayload(<<GoodItem>>, "summary-1", <<"c1">>)]}

InitStore ==
    /\ assets_root = DefaultRoot
    /\ library = AllAssets
    /\ llm_client \in {"none", "structured"}
    /\ context = DefaultContext
    /\ file \in StoreFiles
    /\ passes = 0
    /\ document = EmptyDocument
    /\ pre = document
    /\ last = [op |-> "init"]

NextStore ==
    /\ passes < MaxStoreOps
    /\ \/ Load
       \/ \E slide_id \in SlideIds :
             \E response \in ResponsesFor(llm_client, StoreResponses) :
                 GenerateForSlide(slide_id, response)

SpecStore == InitStore /\ [][NextStore]_vars

\* C24: the slides of the document are in ascending order of page_number in
\* every state: after load, and after every generate_for_slide.
C24_SlidesAlwaysInPageOrder ==
    \A i \in 1..Len(document.slides) : \A j \in i..Len(document.slides) :
        document.slides[i].page_number <= document.slides[j].page_number

\* ---- slide ids

\* C25: the slides of the document generate_outline returns have pairwise
\* different slide_ids, whatever slide_ids the payload gives or leaves out.
C25_OutlineIdsUnique ==
    (OutlineCalled /\ last.outcome = "ok") => DistinctIds(document.slides)

\* ---- references and the citations of the slides

\* Content passes on a document as generate_outline returns it.
InitOutlinePasses ==
    /\ InitPasses
    /\ document \in {CoverBodyOutline, StaticBodyOutline}

SpecOutlinePasses == InitOutlinePasses /\ [][Next]_vars

\* The citations the notes of the slides hold.
CitationsOfSlides ==
    UNION {Range(Get(document.slides[k].notes, "citations", <<>>)) :
              k \in 1..Len(document.slides)}

InitStoredDeck ==
    /\ assets_root \in RenderRoots
    /\ library = AllAssets
    /\ llm_client = "none"
    /\ context = DefaultContext
    /\ file \in StoreFiles
    /\ passes = 0
    /\ document = EmptyDocument
    /\ pre = document
    /\ last = [op |-> "init"]

NextStoredDeck ==
    /\ passes < MaxStoreOps
    /\ \/ Load
       \/ Render

SpecStoredDeck == InitStoredDeck /\ [][NextStoredDeck]_vars

\* C27: render_document gives one output slide per slide of the document,
\* and the output slides follow the ascending page_numbers: the deck is the
\* one the document gives with its slides taken in page order.
C27_RenderedInPageOrder ==
    (Rendered /\ last.outcome = "ok") =>
        /\ Len(last.deck) = Len(pre.slides)
        /\ last.deck = render_document(library, assets_root,
                                       [pre EXCEPT !.slides = SortByPage(@)]).deck

\* ---- running a content pass again

\* C28: a second generate_for_slide with the same slide_id, context and
\* response leaves the document as the first left it, and so does a second
\* generate_for_document after a first one on the same document.
C28_SecondRunChangesNothing ==
    (ContentCalled /\ last.outcome = "ok") =>
        /\ generate_for_slide(library, llm_client, document, last.slide_id, context,
                              last.response).document = document
        /\ LET responses == [k \in 1..MaxDeckSlides |-> last.response]
               first     == generate_for_document(library, llm_client, document, context,
                                                  responses).document
           IN  generate_for_document(library, llm_client, first, context,
                                     responses).document = first

\* ---- the placeholders of a generated slide

\* C29: after a generate_for_slide that returned, the slide has one
\* placeholder per PlaceholderSpec of its asset, in the order of the specs and
\* under their names, whatever names the response holds; and any other
\* response would have given every fixed and populate placeholder the same
\* text.
C29_PlaceholdersFollowSpecs ==
    (ContentCalled /\ last.outcome = "ok") =>
        LET i     == IndexOfSlide(document.slides, last.slide_id)
            slide == document.slides[i]
            specs == get_asset(library, slide.asset_id).placeholders
        IN  /\ Len(slide.placeholders) = Len(specs)
            /\ \A k \in 1..Len(specs) : slide.placeholders[k].name = specs[k].name
            /\ \A other \in ResponsesFor(llm_client, PassResponses) :
                  LET again == generate_for_slide(library, llm_client, pre, last.slide_id,
                                                  context, other)
                  IN  again.outcome = "ok" =>
                         \A k \in 1..Len(specs) :
                            Lower(specs[k].edit_policy) \in {"fixed", "populate"} =>
                               again.document.slides[i].placeholders[k].text
                                  = slide.placeholders[k].text

\* The response gave a text of its own for the populate placeholder of the
\* slide, and the slide holds the populated text.
C29_ResponseNamedOtherPlaceholders ==
    /\ ContentCalled /\ last.outcome = "ok" /\ last.calls.structured = 1
    /\ last.response.kind = "parsed" /\ last.response.payload.shape = "dict"
    /\ \E n \in 1..Len(last.response.payload.placeholders) :
          LET item == last.response.payload.placeholders[n]
          IN  item.is_dict /\ item.name = "ph1" /\ item.text = <<"x">>
    /\ LET slide == document.slides[IndexOfSlide(document.slides, last.slide_id)]
       IN  /\ slide.asset_id = "cover_001"
           /\ slide.placeholders[1].policy = "populate"
           /\ slide.placeholders[1].text # <<"x">>

\* ---- what generate_for_slide leaves alone

\* The fields of a slide a content pass has no business with.
BoundFields(slide) ==
    [slide_id |-> slide.slide_id, page_number |-> slide.page_number,
     asset_id |-> slide.asset_id, asset_file |-> slide.asset_file, title |-> slide.title]

Without(q, i) == [k \in 1..(Len(q) - 1) |-> IF k < i THEN q[k] ELSE q[k + 1]]

====
